---- MODULE Spec2Model ----
(***************************************************************************)
(* PayScope: checksum-deduplicated artifact intake (payscope_ingestion)    *)
(* and the idempotent parse_artifact job orchestration                     *)
(* (payscope_processing.tasks).                                            *)
(*                                                                         *)
(* The relational store is modelled by the tables artifacts, parse_jobs    *)
(* and report_uploads (sets/sequences of rows); a transaction takes effect *)
(* atomically at its commit, and a SELECT sees the committed rows (READ    *)
(* COMMITTED).  Every await on the object store, the database or the       *)
(* broker is a separate step, so that concurrent upload calls and          *)
(* concurrent worker executions interleave between them.                   *)
(***************************************************************************)
EXTENDS Integers, Sequences, FiniteSets, TLC

\* ---------------------------------------------------------------- bounds
NumUploads == 2
NumChecksums == 2

Uploads == 1..NumUploads
Checksums == 1..NumChecksums
Banks == {"bankA", "bankB"}

\* ------------------------------------------------------- ingestion model
\* FileFormat x PdfKind pairs that detect_file_format can return; the same
\* bytes may be detected differently when only the filename decides.
Detections ==
  { [file_format |-> "PDF", pdf_kind |-> "DIGITAL"],
    [file_format |-> "CSV", pdf_kind |-> "NULL"] }

JobStatus == {"QUEUED", "STARTED", "SUCCESS", "FAILED"}

NoArtifact == 0
NoTask == 0

VARIABLES
  up,              \* per upload call: position and locals of the handler
  objects,         \* object store: set of keys present in the bucket
  artifacts,       \* table artifacts
  parse_jobs,      \* table parse_jobs
  report_uploads,  \* table report_uploads, in commit order
  queue,           \* broker: parse_artifact messages not yet acknowledged
  results,         \* response list "uploads"
  errors,          \* response list "errors"
  exec,            \* per worker: the parse_artifact execution it is running
  stores,          \* reports/transactions, time series, graph, vectors
  dlq_events,      \* table dlq_events, in insertion order
  last_result,     \* what the execution that returned last returned
  redeliveries,    \* number of messages the broker has duplicated so far
  success_marks,   \* per artifact: times the job was moved to SUCCESS
  body_completions \* per artifact: times the last store write completed

ingestVars == <<up, objects, artifacts, parse_jobs, report_uploads, queue,
                results, errors>>
workerVars == <<exec, stores, dlq_events, last_result, redeliveries,
                success_marks, body_completions>>

Ext(ff) ==
  CASE ff = "PDF" -> "pdf"
    [] ff = "CSV" -> "csv"
    [] ff = "XLSX" -> "xlsx"

\* object_key = f"raw/{checksum}.{ext}"
ObjectKey(checksum, ff) == <<"raw", checksum, Ext(ff)>>

ArtifactByChecksum(c) == {a \in artifacts : a.checksum_sha256 = c}
JobsOf(aid) == {j \in parse_jobs : j.artifact_id = aid}

UpInit ==
  [pc |-> "idle", checksum |-> 0, det |-> [file_format |-> "CSV", pdf_kind |-> "NULL"],
   bank_id |-> "bankA", object_key |-> <<>>, created_new_artifact |-> FALSE,
   artifact_id |-> NoArtifact, job_missing |-> FALSE, task_id |-> NoTask,
   err |-> "none", did_put |-> FALSE, did_send |-> FALSE, obj_at_start |-> FALSE,
   after |-> {}, job_status |-> "NONE", status_at_setref |-> "NONE"]

IngestInit ==
  /\ up = [u \in Uploads |-> UpInit]
  /\ objects = {}
  /\ artifacts = {}
  /\ parse_jobs = {}
  /\ report_uploads = <<>>
  /\ queue = {}
  /\ results = <<>>
  /\ errors = <<>>

\* Lines 67-97: a file of the request is read, hashed and its format detected.
\* after records the files whose handling had ended by then (the earlier
\* files of the same request are among them).
UploadBegin(u, c, d, b) ==
  /\ up[u].pc = "idle"
  /\ up' = [up EXCEPT ![u] = [@ EXCEPT !.pc = "lookup", !.checksum = c, !.det = d,
                                       !.bank_id = b,
                                       !.object_key = ObjectKey(c, d.file_format),
                                       !.obj_at_start =
                                          (ObjectKey(c, d.file_format) \in objects),
                                       !.after =
                                          {v \in Uploads : up[v].pc = "done"}]]
  /\ UNCHANGED <<objects, artifacts, parse_jobs, report_uploads, queue, results, errors>>

\* Lines 99-106 and 132-140: SELECT the artifact by checksum; when it exists,
\* SELECT its parse job.
UploadLookup(u) ==
  /\ up[u].pc = "lookup"
  /\ LET found == ArtifactByChecksum(up[u].checksum) IN
       IF found = {}
       THEN up' = [up EXCEPT ![u] = [@ EXCEPT !.pc = "put"]]
       ELSE LET a == CHOOSE x \in found : TRUE IN
            up' = [up EXCEPT ![u] = [@ EXCEPT !.pc = "commit",
                     !.artifact_id = a.artifact_id,
                     !.job_missing = (JobsOf(a.artifact_id) = {})]]
  /\ UNCHANGED <<objects, artifacts, parse_jobs, report_uploads, queue, results, errors>>

\* Lines 107-116: put_object_file, then created_new_artifact = True.
UploadPut(u) ==
  /\ up[u].pc = "put"
  /\ objects' = objects \cup {up[u].object_key}
  /\ up' = [up EXCEPT ![u] = [@ EXCEPT !.pc = "commit", !.created_new_artifact = TRUE,
                                       !.did_put = TRUE]]
  /\ UNCHANGED <<artifacts, parse_jobs, report_uploads, queue, results, errors>>

\* Lines 108-115 raising: the object store rejects the transfer.
UploadPutFail(u) ==
  /\ up[u].pc = "put"
  /\ up' = [up EXCEPT ![u] = [@ EXCEPT !.pc = "failed", !.err = "storage"]]
  /\ UNCHANGED <<objects, artifacts, parse_jobs, report_uploads, queue, results, errors>>

NewArtifactRow(u) ==
  [artifact_id |-> u, checksum_sha256 |-> up[u].checksum,
   file_format |-> up[u].det.file_format, pdf_kind |-> up[u].det.pdf_kind,
   object_key |-> up[u].object_key]

NewJobRow(aid) ==
  [job_id |-> aid, artifact_id |-> aid, status |-> "QUEUED",
   celery_task_id |-> NoTask, error |-> "NULL"]

NewUploadRow(u, aid) ==
  [report_id |-> u, artifact_id |-> aid, checksum_sha256 |-> up[u].checksum]

\* Variant: the tables carry no UNIQUE constraint.
UploadViolatesUnique_None(u) == FALSE

\* The UNIQUE constraints of models.py (artifacts.checksum_sha256,
\* uq_parse_jobs_artifact_id) that the pending INSERTs of upload u would break.
UploadViolatesUnique(u) ==
  IF up[u].created_new_artifact
  THEN ArtifactByChecksum(up[u].checksum) # {}
  ELSE up[u].job_missing /\ JobsOf(up[u].artifact_id) # {}

\* Lines 118-156: the session's INSERTs (artifact, job, report upload) commit.
UploadCommit(u) ==
  /\ up[u].pc = "commit"
  /\ ~UploadViolatesUnique(u)
  /\ LET aid == IF up[u].created_new_artifact THEN u ELSE up[u].artifact_id IN
       /\ artifacts' = IF up[u].created_new_artifact
                         THEN artifacts \cup {NewArtifactRow(u)} ELSE artifacts
       /\ parse_jobs' = IF up[u].created_new_artifact \/ up[u].job_missing
                          THEN parse_jobs \cup {NewJobRow(aid)} ELSE parse_jobs
       /\ report_uploads' = Append(report_uploads, NewUploadRow(u, aid))
       /\ up' = [up EXCEPT ![u] = [@ EXCEPT !.pc = "committed", !.artifact_id = aid]]
  /\ UNCHANGED <<objects, queue, results, errors>>

\* Lines 125, 152-156: flush or commit raises IntegrityError; the session
\* rolls back and nothing of it is stored.
UploadCommitIntegrityError(u) ==
  /\ up[u].pc = "commit"
  /\ UploadViolatesUnique(u)
  /\ up' = [up EXCEPT ![u] = [@ EXCEPT !.pc = "failed", !.err = "integrity"]]
  /\ UNCHANGED <<objects, artifacts, parse_jobs, report_uploads, queue, results, errors>>

\* Line 153 raising for any other reason (connection lost, ...).
UploadCommitFail(u) ==
  /\ up[u].pc = "commit"
  /\ up' = [up EXCEPT ![u] = [@ EXCEPT !.pc = "failed", !.err = "db"]]
  /\ UNCHANGED <<objects, artifacts, parse_jobs, report_uploads, queue, results, errors>>

\* The message celery.send_task puts on the broker: args = [artifact_id, bank_id].
NewMessage(u) ==
  [seq |-> 0, task_id |-> u, artifact_id |-> up[u].artifact_id,
   bank_id |-> up[u].bank_id, retries |-> 0, countdown |-> 0]

\* job.status of the ParseJob object a SELECT returns.
ParseStatusOf(aid) ==
  IF JobsOf(aid) = {} THEN "NONE" ELSE (CHOOSE j \in JobsOf(aid) : TRUE).status

\* Variant: send_task without the created_new_artifact test.
UploadEnqueue_Always(u) ==
  /\ up[u].pc = "committed"
  /\ JobsOf(up[u].artifact_id) # {}
  /\ queue' = queue \cup {NewMessage(u)}
  /\ up' = [up EXCEPT ![u] = [@ EXCEPT !.pc = "setref", !.task_id = u, !.did_send = TRUE,
                                       !.job_status = ParseStatusOf(up[u].artifact_id)]]
  /\ UNCHANGED <<objects, artifacts, parse_jobs, report_uploads, results, errors>>

\* Variant: send_task before the session commit.
UploadEnqueue_BeforeCommit(u) ==
  /\ up[u].pc = "commit"
  /\ up[u].created_new_artifact
  /\ ~up[u].did_send
  /\ queue' = queue \cup {[NewMessage(u) EXCEPT !.artifact_id = u]}
  /\ up' = [up EXCEPT ![u] = [@ EXCEPT !.task_id = u, !.did_send = TRUE]]
  /\ UNCHANGED <<objects, artifacts, parse_jobs, report_uploads, results, errors>>

\* Lines 159-169: only for a newly created artifact, SELECT the job (its
\* status as read here is what the call reports), then send_task.
UploadEnqueue(u) ==
  /\ up[u].pc = "committed"
  /\ up[u].created_new_artifact
  /\ JobsOf(up[u].artifact_id) # {}
  /\ queue' = queue \cup {NewMessage(u)}
  /\ up' = [up EXCEPT ![u] = [@ EXCEPT !.pc = "setref", !.task_id = u, !.did_send = TRUE,
                                       !.job_status = ParseStatusOf(up[u].artifact_id)]]
  /\ UNCHANGED <<objects, artifacts, parse_jobs, report_uploads, results, errors>>

\* Line 165 raising: the broker is unreachable.
UploadEnqueueFail(u) ==
  /\ up[u].pc = "committed"
  /\ up[u].created_new_artifact
  /\ up' = [up EXCEPT ![u] = [@ EXCEPT !.pc = "failed", !.err = "queue"]]
  /\ UNCHANGED <<objects, artifacts, parse_jobs, report_uploads, queue, results, errors>>

ResultRow(u) ==
  [report_id |-> u, checksum_sha256 |-> up[u].checksum,
   file_format |-> up[u].det.file_format, pdf_kind |-> up[u].det.pdf_kind,
   artifact_id |-> up[u].artifact_id,
   parse_status |-> IF up[u].created_new_artifact THEN up[u].job_status
                    ELSE ParseStatusOf(up[u].artifact_id)]

\* Variant: the commit writes every column of the job object as it was read
\* before send_task.
UploadSetTaskRef_WholeRow(u) ==
  /\ up[u].pc = "setref"
  /\ parse_jobs' = {IF j.artifact_id = up[u].artifact_id
                      THEN [j EXCEPT !.celery_task_id = up[u].task_id,
                                     !.status = up[u].job_status, !.error = "NULL"]
                      ELSE j
                    : j \in parse_jobs}
  /\ results' = Append(results, ResultRow(u))
  /\ up' = [up EXCEPT ![u] = [@ EXCEPT !.pc = "done",
                                       !.status_at_setref =
                                          ParseStatusOf(up[u].artifact_id)]]
  /\ UNCHANGED <<objects, artifacts, report_uploads, queue, errors>>

\* Lines 170-171 and 180-192: job.celery_task_id = async_result.id; commit
\* (the ORM writes only the changed column; expire_on_commit=False keeps
\* the status that was read before send_task), then the result is appended.
\* status_at_setref records the stored status the write met.
UploadSetTaskRef(u) ==
  /\ up[u].pc = "setref"
  /\ parse_jobs' = {IF j.artifact_id = up[u].artifact_id
                      THEN [j EXCEPT !.celery_task_id = up[u].task_id] ELSE j
                    : j \in parse_jobs}
  /\ results' = Append(results, ResultRow(u))
  /\ up' = [up EXCEPT ![u] = [@ EXCEPT !.pc = "done",
                                       !.status_at_setref =
                                          ParseStatusOf(up[u].artifact_id)]]
  /\ UNCHANGED <<objects, artifacts, report_uploads, queue, errors>>

\* Lines 172-192: re-read the job for status reporting, append the result.
UploadRefresh(u) ==
  /\ up[u].pc = "committed"
  /\ ~up[u].created_new_artifact
  /\ JobsOf(up[u].artifact_id) # {}
  /\ results' = Append(results, ResultRow(u))
  /\ up' = [up EXCEPT ![u] = [@ EXCEPT !.pc = "done"]]
  /\ UNCHANGED <<objects, artifacts, parse_jobs, report_uploads, queue, errors>>

\* Variant: the except branch without errors.append.
UploadFailureCleanup_Silent(u) ==
  /\ up[u].pc = "failed"
  /\ objects' = IF up[u].created_new_artifact
                  THEN objects \ {up[u].object_key} ELSE objects
  /\ up' = [up EXCEPT ![u] = [@ EXCEPT !.pc = "done"]]
  /\ UNCHANGED <<artifacts, parse_jobs, report_uploads, queue, results, errors>>

\* Lines 193-220: the except branch; delete the object when this call had
\* uploaded it, and report the file in errors.
UploadFailureCleanup(u) ==
  /\ up[u].pc = "failed"
  /\ objects' = IF up[u].created_new_artifact
                  THEN objects \ {up[u].object_key} ELSE objects
  /\ errors' = Append(errors, [report_id |-> u, error |-> up[u].err])
  /\ up' = [up EXCEPT ![u] = [@ EXCEPT !.pc = "done"]]
  /\ UNCHANGED <<artifacts, parse_jobs, report_uploads, queue, results>>

UploadNext ==
  \E u \in Uploads :
    \/ \E c \in Checksums, d \in Detections, b \in Banks : UploadBegin(u, c, d, b)
    \/ UploadLookup(u)
    \/ UploadPut(u)
    \/ UploadPutFail(u)
    \/ UploadCommit(u)
    \/ UploadCommitIntegrityError(u)
    \/ UploadCommitFail(u)
    \/ UploadEnqueue(u)
    \/ UploadEnqueueFail(u)
    \/ UploadSetTaskRef(u)
    \/ UploadRefresh(u)
    \/ UploadFailureCleanup(u)


\* ---------------------------------------------------------- worker model
NumWorkers == 2
MaxRedeliveries == 1

Workers == 1..NumWorkers

\* The two history counters stop counting here.
CountCap == 2

\* @shared_task(max_retries=5)
max_retries == 5

Min(a, b) == IF a < b THEN a ELSE b
Max(a, b) == IF a > b THEN a ELSE b

\* exp = min(cap_s, base_s * (2 ** max(0, attempt)))
BackoffExp_NoCap(attempt, base_s, cap_s) == base_s * (2 ^ Max(0, attempt))
BackoffExp(attempt, base_s, cap_s) == Min(cap_s, base_s * (2 ^ Max(0, attempt)))

\* random.uniform(0, exp) is sampled at the fractions k / JitterSteps of
\* its range, both end points included.
JitterSteps == 1

\* int(random.uniform(0, exp)): the values the call can return.
backoff_with_jitter(attempt, base_s, cap_s) ==
  {(BackoffExp(attempt, base_s, cap_s) * k) \div JitterSteps : k \in 0..JitterSteps}

NoMsg ==
  [seq |-> 0, task_id |-> NoTask, artifact_id |-> NoArtifact, bank_id |-> "bankA",
   retries |-> 0, countdown |-> 0]

ExecInit ==
  [pc |-> "idle", msg |-> NoMsg, report_id |-> 0, claimed |-> FALSE,
   observed |-> "none", err |-> "none"]

EmptyStores == [postgres |-> {}, timeseries |-> {}, neo4j |-> {}, pinecone |-> {}]

WorkerInit ==
  /\ exec = [w \in Workers |-> ExecInit]
  /\ stores = EmptyStores
  /\ dlq_events = <<>>
  /\ last_result = "none"
  /\ redeliveries = 0
  /\ success_marks = [a \in Uploads |-> 0]
  /\ body_completions = [a \in Uploads |-> 0]

Busy(w) == exec[w].pc # "idle"
Reserved(m) == \E w \in Workers : Busy(w) /\ exec[w].msg = m

\* The countdown (ETA) of a retry message elapses.
EtaElapsed(m) ==
  /\ m \in queue
  /\ m.countdown > 0
  /\ queue' = (queue \ {m}) \cup {[m EXCEPT !.countdown = 0]}
  /\ UNCHANGED <<up, objects, artifacts, parse_jobs, report_uploads, results, errors>>
  /\ UNCHANGED workerVars

\* At-least-once delivery: the broker holds a second copy of a message
\* (seq tells the copies apart).
Duplicate(m) ==
  /\ m \in queue
  /\ redeliveries < MaxRedeliveries
  /\ redeliveries' = redeliveries + 1
  /\ queue' = queue \cup {[m EXCEPT !.seq = redeliveries + 1]}
  /\ UNCHANGED <<up, objects, artifacts, parse_jobs, report_uploads, results, errors>>
  /\ UNCHANGED <<exec, stores, dlq_events, last_result, success_marks, body_completions>>

\* The broker hands a due message to a free worker (task_acks_late: the
\* message stays on the broker until the execution ends).  The workers are
\* interchangeable: the free worker with the lowest number takes it.
Deliver(w, m) ==
  /\ ~Busy(w)
  /\ \A v \in Workers : v < w => Busy(v)
  /\ m \in queue
  /\ m.countdown = 0
  /\ ~Reserved(m)
  /\ exec' = [exec EXCEPT ![w] = [ExecInit EXCEPT !.pc = "claim", !.msg = m]]
  /\ UNCHANGED ingestVars
  /\ UNCHANGED <<stores, dlq_events, last_result, redeliveries, success_marks,
                 body_completions>>

\* task_reject_on_worker_lost: the worker process dies mid-execution; no
\* handler runs and the message becomes deliverable again.
WorkerCrash(w) ==
  /\ Busy(w)
  /\ exec' = [exec EXCEPT ![w] = ExecInit]
  /\ UNCHANGED ingestVars
  /\ UNCHANGED <<stores, dlq_events, last_result, redeliveries, success_marks,
                 body_completions>>

SetJobStatus(aid, st, er) ==
  {IF j.artifact_id = aid THEN [j EXCEPT !.status = st, !.error = er] ELSE j
   : j \in parse_jobs}

\* The execution ends without raising: the message is acknowledged.
Return(w, res) ==
  /\ exec' = [exec EXCEPT ![w] = ExecInit]
  /\ last_result' = res
  /\ queue' = queue \ {exec[w].msg}

\* Variant: the claim step without the STARTED check.
Claim_NoStartedCheck(w) ==
  /\ exec[w].pc = "claim"
  /\ LET aid == exec[w].msg.artifact_id
         rows == JobsOf(aid) IN
       IF rows = {}
       THEN \* row is None: RuntimeError("parse job not found ...")
         /\ exec' = [exec EXCEPT ![w] = [@ EXCEPT !.pc = "handler",
                                                 !.err = "parse job not found"]]
         /\ UNCHANGED <<parse_jobs, queue, last_result>>
       ELSE LET status == (CHOOSE j \in rows : TRUE).status IN
         IF status = "SUCCESS"
         THEN /\ Return(w, "already_success")
              /\ UNCHANGED parse_jobs
         ELSE IF FALSE
         THEN /\ Return(w, "already_started")
              /\ UNCHANGED parse_jobs
         ELSE /\ parse_jobs' = SetJobStatus(aid, "STARTED", "NULL")
              /\ exec' = [exec EXCEPT ![w] = [@ EXCEPT !.pc = "body",
                                                      !.claimed = TRUE,
                                                      !.observed = status]]
              /\ UNCHANGED <<queue, last_result>>
  /\ UNCHANGED <<up, objects, artifacts, report_uploads, results, errors>>
  /\ UNCHANGED <<stores, dlq_events, redeliveries, success_marks, body_completions>>

\* Variant: the claim step without the SUCCESS check.
Claim_NoSuccessCheck(w) ==
  /\ exec[w].pc = "claim"
  /\ LET aid == exec[w].msg.artifact_id
         rows == JobsOf(aid) IN
       IF rows = {}
       THEN \* row is None: RuntimeError("parse job not found ...")
         /\ exec' = [exec EXCEPT ![w] = [@ EXCEPT !.pc = "handler",
                                                 !.err = "parse job not found"]]
         /\ UNCHANGED <<parse_jobs, queue, last_result>>
       ELSE LET status == (CHOOSE j \in rows : TRUE).status IN
         IF FALSE
         THEN /\ Return(w, "already_success")
              /\ UNCHANGED parse_jobs
         ELSE IF status = "STARTED"
         THEN /\ Return(w, "already_started")
              /\ UNCHANGED parse_jobs
         ELSE /\ parse_jobs' = SetJobStatus(aid, "STARTED", "NULL")
              /\ exec' = [exec EXCEPT ![w] = [@ EXCEPT !.pc = "body",
                                                      !.claimed = TRUE,
                                                      !.observed = status]]
              /\ UNCHANGED <<queue, last_result>>
  /\ UNCHANGED <<up, objects, artifacts, report_uploads, results, errors>>
  /\ UNCHANGED <<stores, dlq_events, redeliveries, success_marks, body_completions>>

\* tasks.py 47-78: the claim transaction (SELECT ... FOR UPDATE, the two
\* idempotency checks, UPDATE ... SET status = 'STARTED').
Claim(w) ==
  /\ exec[w].pc = "claim"
  /\ LET aid == exec[w].msg.artifact_id
         rows == JobsOf(aid) IN
       IF rows = {}
       THEN \* row is None: RuntimeError("parse job not found ...")
         /\ exec' = [exec EXCEPT ![w] = [@ EXCEPT !.pc = "handler",
                                                 !.err = "parse job not found"]]
         /\ UNCHANGED <<parse_jobs, queue, last_result>>
       ELSE LET status == (CHOOSE j \in rows : TRUE).status IN
         IF status = "SUCCESS"
         THEN /\ Return(w, "already_success")
              /\ UNCHANGED parse_jobs
         ELSE IF status = "STARTED"
         THEN /\ Return(w, "already_started")
              /\ UNCHANGED parse_jobs
         ELSE /\ parse_jobs' = SetJobStatus(aid, "STARTED", "NULL")
              /\ exec' = [exec EXCEPT ![w] = [@ EXCEPT !.pc = "body",
                                                      !.claimed = TRUE,
                                                      !.observed = status]]
              /\ UNCHANGED <<queue, last_result>>
  /\ UNCHANGED <<up, objects, artifacts, report_uploads, results, errors>>
  /\ UNCHANGED <<stores, dlq_events, redeliveries, success_marks, body_completions>>

\* tasks.py 47-59 raising: acquiring the connection or the SELECT ... FOR
\* UPDATE fails (connection lost, lock timeout); the transaction rolls back.
ClaimError(w) ==
  /\ exec[w].pc = "claim"
  /\ exec' = [exec EXCEPT ![w] = [@ EXCEPT !.pc = "handler", !.err = "claim"]]
  /\ UNCHANGED ingestVars
  /\ UNCHANGED <<stores, dlq_events, last_result, redeliveries, success_marks,
                 body_completions>>

UploadsOf(aid) == SelectSeq(report_uploads, LAMBDA r : r.artifact_id = aid)

\* tasks.py 84-95: report_id of the most recent upload of the artifact, the
\* artifact_id when there is none.
CanonicalReportId(aid) ==
  LET ups == UploadsOf(aid) IN
    IF ups = <<>> THEN aid ELSE ups[Len(ups)].report_id

\* The store writes of the body in the order of tasks.py 123-161.
StoreOrder == <<"postgres", "timeseries", "neo4j", "pinecone">>

\* The key under which an execution's normalization result is upserted.
NormKey(bank_id, report_id) == <<bank_id, report_id>>

\* The stores after the first k writes of a body (idempotent upserts).
StoresAfter(key, k) ==
  [s \in DOMAIN stores |->
     IF \E i \in 1..k : StoreOrder[i] = s THEN stores[s] \cup {key} ELSE stores[s]]

\* tasks.py 84-161, the pipeline body: select the report_id, run_pipeline
\* (download, parse, normalize), then persist_report_and_transactions,
\* persist_timeseries, persist_graph and persist_embeddings all complete.
RunBody(w) ==
  /\ exec[w].pc = "body"
  /\ LET rid == CanonicalReportId(exec[w].msg.artifact_id) IN
       /\ stores' = StoresAfter(NormKey(exec[w].msg.bank_id, rid), Len(StoreOrder))
       /\ exec' = [exec EXCEPT ![w] = [@ EXCEPT !.pc = "mark", !.report_id = rid]]
  /\ body_completions' = [body_completions EXCEPT
                            ![exec[w].msg.artifact_id] = Min(@ + 1, CountCap)]
  /\ UNCHANGED ingestVars
  /\ UNCHANGED <<dlq_events, last_result, redeliveries, success_marks>>

\* tasks.py 84-161 raising: run_pipeline fails (k = 0) or the (k+1)-th store
\* write fails after the first k have been applied; control passes to the
\* except branch at line 175.
BodyFail(w, k) ==
  /\ exec[w].pc = "body"
  /\ k \in 0..(Len(StoreOrder) - 1)
  /\ LET rid == CanonicalReportId(exec[w].msg.artifact_id) IN
       /\ stores' = StoresAfter(NormKey(exec[w].msg.bank_id, rid), k)
       /\ exec' = [exec EXCEPT ![w] = [@ EXCEPT !.pc = "handler", !.report_id = rid,
                                               !.err = "body"]]
  /\ UNCHANGED ingestVars
  /\ UNCHANGED <<dlq_events, last_result, redeliveries, success_marks, body_completions>>

\* tasks.py 163-174: UPDATE ... SET status = 'SUCCESS'; return "success".
MarkSuccess(w) ==
  /\ exec[w].pc = "mark"
  /\ parse_jobs' = SetJobStatus(exec[w].msg.artifact_id, "SUCCESS", "NULL")
  /\ success_marks' = [success_marks EXCEPT
                         ![exec[w].msg.artifact_id] = Min(@ + 1, CountCap)]
  /\ Return(w, "success")
  /\ UNCHANGED <<up, objects, artifacts, report_uploads, results, errors>>
  /\ UNCHANGED <<stores, dlq_events, redeliveries, body_completions>>

\* tasks.py 164-172 raising: the UPDATE to SUCCESS fails; control passes to
\* the except branch at line 175.
MarkSuccessError(w) ==
  /\ exec[w].pc = "mark"
  /\ exec' = [exec EXCEPT ![w] = [@ EXCEPT !.pc = "handler", !.err = "mark"]]
  /\ UNCHANGED ingestVars
  /\ UNCHANGED <<stores, dlq_events, last_result, redeliveries, success_marks,
                 body_completions>>

\* tasks.py 175-187: UPDATE ... SET status = 'FAILED', error = str(e); raise.
FailureHandler(w) ==
  /\ exec[w].pc = "handler"
  /\ parse_jobs' = SetJobStatus(exec[w].msg.artifact_id, "FAILED", "str(e)")
  /\ exec' = [exec EXCEPT ![w] = [@ EXCEPT !.pc = "retry"]]
  /\ UNCHANGED <<up, objects, artifacts, report_uploads, queue, results, errors>>
  /\ UNCHANGED <<stores, dlq_events, last_result, redeliveries, success_marks,
                 body_completions>>

\* tasks.py 176-185 raising: the UPDATE of the except branch fails too, and
\* its exception is the one that reaches the retry logic.
FailureHandlerError(w) ==
  /\ exec[w].pc = "handler"
  /\ exec' = [exec EXCEPT ![w] = [@ EXCEPT !.pc = "retry", !.err = "handler"]]
  /\ UNCHANGED ingestVars
  /\ UNCHANGED <<stores, dlq_events, last_result, redeliveries, success_marks,
                 body_completions>>

\* Variant: one retry too many.
RetriesExhausted_OffByOne(attempt) == attempt > max_retries

\* attempt >= int(self.max_retries or 0)
RetriesExhausted(attempt) == attempt >= max_retries

\* tasks.py 217-218: self.retry(exc, countdown): a new message with
\* retries + 1 is published and the running one acknowledged.
ScheduleRetry(w, countdown) ==
  /\ exec[w].pc = "retry"
  /\ ~RetriesExhausted(exec[w].msg.retries)
  /\ countdown \in backoff_with_jitter(exec[w].msg.retries, 2, 300)
  /\ queue' = (queue \ {exec[w].msg}) \cup
                {[exec[w].msg EXCEPT !.retries = @ + 1, !.countdown = countdown]}
  /\ exec' = [exec EXCEPT ![w] = ExecInit]
  /\ UNCHANGED <<up, objects, artifacts, parse_jobs, report_uploads, results, errors>>
  /\ UNCHANGED <<stores, dlq_events, last_result, redeliveries, success_marks,
                 body_completions>>

DlqEvent(w) ==
  [task_name |-> "payscope_processing.tasks.parse_artifact",
   task_id |-> exec[w].msg.task_id, artifact_id |-> exec[w].msg.artifact_id,
   error |-> exec[w].err, payload |-> [artifact_id |-> exec[w].msg.artifact_id]]

\* tasks.py 198-216: write_dlq, then re-raise (no retry).
WriteDlq(w) ==
  /\ exec[w].pc = "retry"
  /\ RetriesExhausted(exec[w].msg.retries)
  /\ dlq_events' = Append(dlq_events, DlqEvent(w))
  /\ queue' = queue \ {exec[w].msg}
  /\ exec' = [exec EXCEPT ![w] = ExecInit]
  /\ UNCHANGED <<up, objects, artifacts, parse_jobs, report_uploads, results, errors>>
  /\ UNCHANGED <<stores, last_result, redeliveries, success_marks, body_completions>>

WorkerNext ==
  \/ \E m \in queue : EtaElapsed(m)
  \/ \E m \in queue : Duplicate(m)
  \/ \E w \in Workers :
       \/ \E m \in queue : Deliver(w, m)
       \/ WorkerCrash(w)
       \/ Claim(w)
       \/ ClaimError(w)
       \/ RunBody(w)
       \/ \E k \in 0..3 : BodyFail(w, k)
       \/ MarkSuccess(w)
       \/ MarkSuccessError(w)
       \/ FailureHandler(w)
       \/ FailureHandlerError(w)
       \/ \E d \in 0..32 : ScheduleRetry(w, d)
       \/ WriteDlq(w)

\* ----------------------------------------------------- persistence model
\* One parse_artifact execution after another (tasks.py 47-187), the body
\* taken store write by store write: the relational tables, the time-series
\* table, the graph and the vector index are modelled row by row.
MaxTime == 2
MaxAttempts == 2
NumStages == 2

TxIds == <<"t1", "t2">>
EventTimes == 1..MaxTime
LifecycleStage == {"AUTH", "CLEARING", "SETTLEMENT"}
\* The stages documents are classified as in the persistence model.
StageOrder == <<"AUTH", "CLEARING", "SETTLEMENT">>
PersistStages == {StageOrder[i] : i \in 1..(IF NumStages < 3 THEN NumStages ELSE 3)}
SCHEMA_VERSION == "1.0.0"
PersistBank == "bankA"

\* ------------------------------------------------ lifecycle reconciliation
\* graph/reasoning.py. Amounts are whole numbers of a minor unit and
\* timestamps are seconds, so that the relative difference and the gap are
\* computed exactly.
LifecycleStageInfo(stage, amount, currency, timestamp_utc) ==
  [stage |-> stage, amount |-> amount, currency |-> currency,
   timestamp_utc |-> timestamp_utc]

Abs(x) == IF x < 0 THEN 0 - x ELSE x

\* by_stage = {s.stage: s for s in stages}: a later record of a stage
\* replaces an earlier one.
by_stage(stages) ==
  [st \in {stages[i].stage : i \in DOMAIN stages} |->
     stages[CHOOSE i \in DOMAIN stages :
              /\ stages[i].stage = st
              /\ \A j \in DOMAIN stages : stages[j].stage = st => j <= i]]

\* rel = abs(a - b) / max(abs(a), abs(b)); rel > 0.01
RelOver_OrEqual(a, b) == 100 * Abs(a - b) >= Max(Abs(a), Abs(b))
RelOver(a, b) == 100 * Abs(a - b) > Max(Abs(a), Abs(b))

has_amount_mismatch(amounts) ==
  \E i \in DOMAIN amounts : \E j \in (i + 1)..Len(amounts) :
    /\ ~(amounts[i] = 0 \/ amounts[j] = 0)
    /\ RelOver(amounts[i], amounts[j])

\* The timestamps of the stages of by_stage, in the order AUTH, CLEARING,
\* SETTLEMENT.
ts_list(bs) ==
  LET present == SelectSeq(StageOrder, LAMBDA st : st \in DOMAIN bs)
  IN [i \in DOMAIN present |-> bs[present[i]].timestamp_utc]

OutOfOrder_OrEqual(a, b) == a >= b
OutOfOrder(a, b) == a > b

timestamp_violation(ts) ==
  \E i \in 1..(Len(ts) - 1) : OutOfOrder(ts[i], ts[i + 1])

\* None is the empty sequence, a duration the sequence of its seconds.
lifecycle_gap_duration_Reversed(bs) ==
  IF "AUTH" \in DOMAIN bs /\ "SETTLEMENT" \in DOMAIN bs
  THEN <<bs["AUTH"].timestamp_utc - bs["SETTLEMENT"].timestamp_utc>>
  ELSE <<>>
lifecycle_gap_duration(bs) ==
  IF "AUTH" \in DOMAIN bs /\ "SETTLEMENT" \in DOMAIN bs
  THEN <<bs["SETTLEMENT"].timestamp_utc - bs["AUTH"].timestamp_utc>>
  ELSE <<>>

LifecycleAnomalies(ham, ms, cc, lgd, tv) ==
  [has_amount_mismatch |-> ham, missing_settlement |-> ms,
   currency_conflict |-> cc, lifecycle_gap_duration |-> lgd,
   timestamp_violation |-> tv]

analyze_lifecycle(stages) ==
  LET bs == by_stage(stages)
      currencies == {stages[i].currency : i \in DOMAIN stages}
      amounts == [i \in DOMAIN stages |-> stages[i].amount]
  IN LifecycleAnomalies(has_amount_mismatch(amounts),
                        "SETTLEMENT" \notin DOMAIN bs,
                        Cardinality(currencies) > 1,
                        lifecycle_gap_duration(bs),
                        timestamp_violation(ts_list(bs)))

VARIABLES
  pexec,               \* the execution in progress: position and locals
  settings,            \* which optional stores are configured
  reports,             \* table reports, in insertion order (index = id)
  merchants,           \* table merchants
  transactions,        \* table transactions
  transaction_volume,  \* table transaction_volume (daily buckets)
  graph,               \* graph store: nodes, relationships, stage edges
  vectors              \* vector index: set of <<id, metadata>>

persistVars == <<pexec, settings, reports, merchants, transactions,
                 transaction_volume, graph, vectors>>

\* A TransactionFact as normalize_tabular emits it; the lifecycle stage is
\* the one stage inferred for the whole document.
Fact(id, stage, t) ==
  [transaction_id |-> id, lifecycle_stage |-> stage, amount |-> 10,
   currency |-> "USD", timestamp_utc |-> t, merchant_id |-> "m1",
   card_network |-> "VISA"]

\* The transaction lists dedupe_transactions can return over TxIds: one
\* fact per transaction_id, sorted by transaction_id.
FactLists(stage) ==
  {<<>>}
    \cup {<<Fact(TxIds[i], stage, t)>> : i \in DOMAIN TxIds, t \in EventTimes}
    \cup {<<Fact(TxIds[i], stage, t1), Fact(TxIds[j], stage, t2)>> :
            <<i, j>> \in {p \in (DOMAIN TxIds) \X (DOMAIN TxIds) : p[1] < p[2]},
            <<t1, t2>> \in EventTimes \X EventTimes}

\* NormalizationResult (report_fact and transactions) for report_id rid.
NormResults(rid) ==
  {[report_id |-> rid, source_network |-> "UNKNOWN", record_count |-> Len(txs),
    schema_version |-> SCHEMA_VERSION, transactions |-> txs] :
     txs \in UNION {FactLists(s) : s \in PersistStages}}

NoNorm ==
  [report_id |-> 0, source_network |-> "UNKNOWN", record_count |-> 0,
   schema_version |-> SCHEMA_VERSION, transactions |-> <<>>]

PExecInit ==
  [pc |-> "idle", job |-> 0, attempt |-> 0, norm |-> NoNorm, gi |-> 1,
   err |-> "none", outage |-> FALSE, steps |-> <<>>]

\* anomalies: the anomaly properties of each Transaction node, by
\* transaction_pk.
EmptyGraph ==
  [nodes |-> {}, rels |-> {}, edges |-> <<>>, anomalies |-> <<>>, last_time |-> <<>>]

\* INSERT ... ON CONFLICT (key) DO UPDATE SET ...: the row with the key of
\* `row` is replaced in place (it keeps its id), otherwise `row` is appended.
Upsert(table, Key(_), row) ==
  IF \E i \in DOMAIN table : Key(table[i]) = Key(row)
  THEN [i \in DOMAIN table |-> IF Key(table[i]) = Key(row) THEN row ELSE table[i]]
  ELSE Append(table, row)

\* INSERT ... ON CONFLICT DO NOTHING.
InsertIfAbsent(table, Key(_), row) ==
  IF \E i \in DOMAIN table : Key(table[i]) = Key(row) THEN table ELSE Append(table, row)

\* RETURNING id of the row with the key of `row`.
IdOf(table, Key(_), row) == CHOOSE i \in DOMAIN table : Key(table[i]) = Key(row)

ReportKey(r) == <<r.bank_id, r.report_id, r.schema_version>>
MerchantKey(r) == <<r.bank_id, r.merchant_id, r.schema_version>>
TransactionKey(r) == <<r.bank_id, r.transaction_id, r.lifecycle_stage, r.schema_version>>

ReportRow(bank_id, norm) ==
  [bank_id |-> bank_id, report_id |-> norm.report_id,
   source_network |-> norm.source_network, record_count |-> norm.record_count,
   schema_version |-> norm.schema_version]

MerchantRow(bank_id, tx, norm) ==
  [bank_id |-> bank_id, merchant_id |-> tx.merchant_id, name |-> "NULL",
   country |-> "NULL", schema_version |-> norm.schema_version]

TransactionRow(bank_id, tx, norm, merchant_pk, report_pk) ==
  [bank_id |-> bank_id, transaction_id |-> tx.transaction_id,
   lifecycle_stage |-> tx.lifecycle_stage, amount |-> tx.amount,
   currency |-> tx.currency, timestamp_utc |-> tx.timestamp_utc,
   card_network |-> tx.card_network, merchant_pk |-> merchant_pk,
   report_pk |-> report_pk, schema_version |-> norm.schema_version]

\* The merchants upsert: COALESCE(EXCLUDED.name, merchants.name) with a NULL
\* new value keeps the stored name and country, so a matched row is unchanged.
UpsertMerchant(table, row) ==
  IF \E i \in DOMAIN table : MerchantKey(table[i]) = MerchantKey(row)
  THEN table ELSE Append(table, row)

\* The loop of persist_report_and_transactions over norm.transactions from
\* index i on, given the merchants and transactions tables so far.
RECURSIVE UpsertTransactions(_, _, _, _, _, _)
UpsertTransactions(ms, ts, bank_id, norm, report_pk, i) ==
  IF i > Len(norm.transactions) THEN [merchants |-> ms, transactions |-> ts]
  ELSE LET tx == norm.transactions[i]
           ms2 == UpsertMerchant(ms, MerchantRow(bank_id, tx, norm))
           mpk == IdOf(ms2, MerchantKey, MerchantRow(bank_id, tx, norm))
           ts2 == Upsert(ts, TransactionKey,
                         TransactionRow(bank_id, tx, norm, mpk, report_pk))
       IN UpsertTransactions(ms2, ts2, bank_id, norm, report_pk, i + 1)

\* persist_timeseries: transactions aggregated per (day, network, stage).
BucketKey(r) == <<r.bank_id, r.bucket_time, r.source_network, r.lifecycle_stage>>

BucketRow(bank_id, norm, day, stage) ==
  LET members == {i \in DOMAIN norm.transactions :
                    /\ norm.transactions[i].timestamp_utc = day
                    /\ norm.transactions[i].lifecycle_stage = stage} IN
    [bank_id |-> bank_id, bucket_time |-> day,
     source_network |-> norm.source_network, lifecycle_stage |-> stage,
     tx_count |-> Cardinality(members),
     amount_sum |-> 10 * Cardinality(members)]

\* The order of buckets.items(): first appearance in norm.transactions.
RECURSIVE BucketOrder(_, _, _)
BucketOrder(norm, i, seen) ==
  IF i > Len(norm.transactions) THEN <<>>
  ELSE LET k == <<norm.transactions[i].timestamp_utc,
                  norm.transactions[i].lifecycle_stage>> IN
       IF k \in seen THEN BucketOrder(norm, i + 1, seen)
       ELSE <<k>> \o BucketOrder(norm, i + 1, seen \cup {k})

InsertBuckets_Replace(tv, bank_id, norm, order, i) ==
  IF i > Len(order) THEN tv
  ELSE Upsert(tv, BucketKey, BucketRow(bank_id, norm, order[i][1], order[i][2]))
RECURSIVE InsertBuckets(_, _, _, _, _)
InsertBuckets(tv, bank_id, norm, order, i) ==
  IF i > Len(order) THEN tv
  ELSE InsertBuckets(
         InsertIfAbsent(tv, BucketKey, BucketRow(bank_id, norm, order[i][1], order[i][2])),
         bank_id, norm, order, i + 1)

\* ---- graph store (graph/neo4j_writer.py, persistence/neo4j_persist.py)
EdgeKey(e) == <<e.transaction_pk, e.rel_type, e.edge_id>>

\* sorted(stages, key = event_time): stable insertion sort.
RECURSIVE InsertByTime(_, _)
InsertByTime(s, sorted) ==
  IF sorted = <<>> THEN <<s>>
  ELSE IF s.event_time < Head(sorted).event_time THEN <<s>> \o sorted
  ELSE <<Head(sorted)>> \o InsertByTime(s, Tail(sorted))

RECURSIVE SortByTime(_)
SortByTime(stages) ==
  IF stages = <<>> THEN <<>>
  ELSE InsertByTime(stages[Len(stages)], SortByTime(SubSeq(stages, 1, Len(stages) - 1)))

\* The check of the loop in _write_lifecycle: an element of `ordered` is
\* earlier than the one before it (last_time is local to the call).
OrderingViolation(ordered) ==
  \E i \in 2..Len(ordered) : ordered[i].event_time < ordered[i - 1].event_time

StageEdge(transaction_pk, s) ==
  [transaction_pk |-> transaction_pk, rel_type |-> s.rel_type,
   edge_id |-> <<transaction_pk, s.rel_type, s.stage>>,
   stage |-> s.stage, event_time |-> s.event_time]

RECURSIVE MergeEdges(_, _, _, _)
MergeEdges(edges, transaction_pk, ordered, i) ==
  IF i > Len(ordered) THEN edges
  ELSE MergeEdges(Upsert(edges, EdgeKey, StageEdge(transaction_pk, ordered[i])),
                  transaction_pk, ordered, i + 1)

\* GraphWriter._write_lifecycle inside one write transaction: the graph it
\* commits, or raised = TRUE and nothing committed.
WriteLifecycle(g, transaction_pk, merchant_pk, network, stages) ==
  LET ordered == SortByTime(stages) IN
    IF OrderingViolation(ordered)
    THEN [raised |-> TRUE, graph |-> g]
    ELSE [raised |-> FALSE,
          graph |->
            [g EXCEPT
               !.nodes = @ \cup {<<"Transaction", transaction_pk>>,
                                 <<"Merchant", merchant_pk>>,
                                 <<"Network", network>>},
               !.rels = @ \cup {<<transaction_pk, "OF_NETWORK", network>>,
                                <<transaction_pk, "AT_MERCHANT", merchant_pk>>},
               !.edges = MergeEdges(@, transaction_pk, ordered, 1),
               !.last_time =
                  IF ordered = <<>> THEN @
                  ELSE [p \in DOMAIN @ \cup {transaction_pk} |->
                          IF p = transaction_pk
                          THEN ordered[Len(ordered)].event_time ELSE @[p]]]]

\* The stages list persist_graph builds for one transaction.
GraphStages(tx) ==
  <<[rel_type |-> "AUTHORIZED", stage |-> tx.lifecycle_stage,
     event_time |-> tx.timestamp_utc]>>

TransactionPk(bank_id, tx) == <<bank_id, tx.transaction_id>>
MerchantPk(bank_id, tx) == <<bank_id, tx.merchant_id>>

\* ---- vector index (persistence/pinecone_persist.py, vector/chunker.py)
\* chunk_transactions_for_vectors: one chunk per transaction, in order.
ChunkTransactions(norm) ==
  [i \in DOMAIN norm.transactions |->
     [text |-> <<norm.transactions[i].transaction_id, norm.transactions[i].amount,
                 norm.transactions[i].currency, norm.transactions[i].timestamp_utc,
                 norm.transactions[i].merchant_id, norm.transactions[i].card_network>>,
      source_meta |-> [report_id |-> norm.report_id, lifecycle_stage |-> "NULL",
                       source_type |-> "transaction",
                       transaction_id |-> norm.transactions[i].transaction_id]]]

\* vec_id = f"{bank_id}:{transaction_id}-{i}", i counted from 0.
VecId(bank_id, meta, i) == <<bank_id, meta.transaction_id, i - 1>>

VectorPayload(bank_id, norm) ==
  LET chunks == ChunkTransactions(norm) IN
    {<<VecId(bank_id, chunks[i].source_meta, i),
       [report_id |-> chunks[i].source_meta.report_id,
        lifecycle_stage |-> chunks[i].source_meta.lifecycle_stage,
        source_type |-> chunks[i].source_meta.source_type,
        transaction_id |-> chunks[i].source_meta.transaction_id,
        bank_id |-> bank_id]>> : i \in DOMAIN chunks}

\* Python call binding: a call with more positional arguments than the
\* function has positional parameters raises TypeError.
CallBinds(positional_args, positional_params) == positional_args <= positional_params

\* ---- the execution (tasks.py 47-187)
ArtifactFormat(a) == (CHOOSE x \in artifacts : x.artifact_id = a).file_format

\* All variables of the intake and orchestration model but parse_jobs and stores.
persistFrame == <<up, objects, artifacts, report_uploads, queue, results, errors,
                  exec, dlq_events, last_result, redeliveries, success_marks,
                  body_completions, settings>>

Log(step) == Append(pexec.steps, step)

\* tasks.py 47-78: the claim of job a commits STARTED.  A job is executed
\* again (retry or redelivery, at most MaxAttempts times) or the next job
\* is taken up.
PClaim(a) ==
  /\ pexec.pc \in {"idle", "failed", "done"}
  /\ \/ a = pexec.job /\ pexec.attempt < MaxAttempts
     \/ a = pexec.job + 1
  /\ ParseStatusOf(a) \in {"QUEUED", "FAILED"}
  /\ parse_jobs' = SetJobStatus(a, "STARTED", "NULL")
  /\ pexec' = [PExecInit EXCEPT
                 !.pc = "parse", !.job = a,
                 !.attempt = IF a = pexec.job THEN pexec.attempt + 1 ELSE 1,
                 !.norm = IF a = pexec.job THEN pexec.norm ELSE NoNorm]
  /\ UNCHANGED <<stores, reports, merchants, transactions, transaction_volume,
                 graph, vectors>>
  /\ UNCHANGED persistFrame

\* pipeline.py 49-101, 129-139, 165-175: download and format-specific parse.
PParse ==
  /\ pexec.pc = "parse"
  /\ pexec' = [pexec EXCEPT !.pc = "normalize", !.steps = Log("parse")]
  /\ UNCHANGED <<parse_jobs, stores, reports, merchants, transactions,
                 transaction_volume, graph, vectors>>
  /\ UNCHANGED persistFrame

\* pipeline.py 142-163, 178-199: normalize_tabular returns norm.  The same
\* bytes normalize to the same result in every execution of a job.
PNormalize(norm) ==
  /\ pexec.pc = "normalize"
  /\ ArtifactFormat(pexec.job) # "PDF"
  /\ norm \in NormResults(CanonicalReportId(pexec.job))
  /\ pexec.norm = NoNorm \/ norm = pexec.norm
  /\ pexec' = [pexec EXCEPT !.pc = "relational", !.norm = norm,
                            !.steps = Log("normalize")]
  /\ UNCHANGED <<parse_jobs, stores, reports, merchants, transactions,
                 transaction_volume, graph, vectors>>
  /\ UNCHANGED persistFrame

\* pipeline.py 104-115: normalize_pdf_elements is called with settings=...,
\* a keyword its signature (flow.py 209-220) does not have: TypeError.
PNormalizePdfRaise ==
  /\ pexec.pc = "normalize"
  /\ ArtifactFormat(pexec.job) = "PDF"
  /\ pexec' = [pexec EXCEPT !.pc = "handler", !.err = "TypeError"]
  /\ UNCHANGED <<parse_jobs, stores, reports, merchants, transactions,
                 transaction_volume, graph, vectors>>
  /\ UNCHANGED persistFrame

\* A step of the body raises because the service it calls is unavailable
\* (object store, mapping oracle, database, graph, embedder); what earlier
\* steps committed stays.
POutage ==
  /\ pexec.pc \in {"parse", "normalize", "relational", "timeseries", "graph",
                   "vector", "mark"}
  /\ pexec' = [pexec EXCEPT !.pc = "handler", !.err = "unavailable", !.outage = TRUE]
  /\ UNCHANGED <<parse_jobs, stores, reports, merchants, transactions,
                 transaction_volume, graph, vectors>>
  /\ UNCHANGED persistFrame

AfterTimeseries == IF settings.neo4j THEN "graph" ELSE IF settings.pinecone THEN "vector" ELSE "mark"
AfterGraph == IF settings.pinecone THEN "vector" ELSE "mark"

Ledger(store) ==
  [stores EXCEPT ![store] = @ \cup {NormKey(PersistBank, pexec.norm.report_id)}]

\* tasks.py 124: persist_report_and_transactions, one database transaction.
PPersistRelational ==
  /\ pexec.pc = "relational"
  /\ LET row == ReportRow(PersistBank, pexec.norm)
         rs == Upsert(reports, ReportKey, row)
         out == UpsertTransactions(merchants, transactions, PersistBank, pexec.norm,
                                   IdOf(rs, ReportKey, row), 1) IN
       /\ reports' = rs
       /\ merchants' = out.merchants
       /\ transactions' = out.transactions
  /\ stores' = Ledger("postgres")
  /\ pexec' = [pexec EXCEPT !.pc = "timeseries", !.steps = Log("relational")]
  /\ UNCHANGED <<parse_jobs, transaction_volume, graph, vectors>>
  /\ UNCHANGED persistFrame

\* tasks.py 125: persist_timeseries, a second database transaction.
PPersistTimeseries ==
  /\ pexec.pc = "timeseries"
  /\ transaction_volume' =
       InsertBuckets(transaction_volume, PersistBank, pexec.norm,
                     BucketOrder(pexec.norm, 1, {}), 1)
  /\ stores' = Ledger("timeseries")
  /\ pexec' = [pexec EXCEPT !.pc = AfterTimeseries, !.steps = Log("timeseries")]
  /\ UNCHANGED <<parse_jobs, reports, merchants, transactions, graph, vectors>>
  /\ UNCHANGED persistFrame

\* neo4j_persist.py 21-28: the stage records persist_graph builds for one
\* transaction, the fact's own stage only.
StageInfos(tx) ==
  <<LifecycleStageInfo(tx.lifecycle_stage, tx.amount, tx.currency, tx.timestamp_utc)>>

\* neo4j_persist.py 29-36: "We do not recompute anomalies; set defaults (all
\* false)."; the list of stage records is not used.
StoredAnomalies(tx) == LifecycleAnomalies(FALSE, FALSE, FALSE, <<>>, FALSE)

\* neo4j_persist.py 52-69: MATCH (t:Transaction {transaction_pk: $pk}) SET ...
SetAnomalies(stored, pk, anomalies) ==
  [p \in DOMAIN stored \cup {pk} |-> IF p = pk THEN anomalies ELSE stored[p]]

\* tasks.py 127-140, neo4j_persist.py 20-69: one transaction of the result is
\* written to the graph (upsert_lifecycle in its own write transaction, then
\* the anomaly flags are set on the Transaction node).
PPersistGraphTx ==
  /\ pexec.pc = "graph"
  /\ pexec.gi <= Len(pexec.norm.transactions)
  /\ LET tx == pexec.norm.transactions[pexec.gi]
         res == WriteLifecycle(graph, TransactionPk(PersistBank, tx),
                               MerchantPk(PersistBank, tx), tx.card_network,
                               GraphStages(tx)) IN
       IF res.raised
       THEN /\ pexec' = [pexec EXCEPT !.pc = "handler",
                                      !.err = "temporal_ordering_violation"]
            /\ UNCHANGED graph
       ELSE /\ graph' = [res.graph EXCEPT
                          !.anomalies = SetAnomalies(@, TransactionPk(PersistBank, tx),
                                                     StoredAnomalies(tx))]
            /\ pexec' = [pexec EXCEPT !.gi = @ + 1]
  /\ UNCHANGED <<parse_jobs, stores, reports, merchants, transactions,
                 transaction_volume, vectors>>
  /\ UNCHANGED persistFrame

\* neo4j_persist.py 70-72: the loop is over; persist_graph returns.
PPersistGraphDone ==
  /\ pexec.pc = "graph"
  /\ pexec.gi > Len(pexec.norm.transactions)
  /\ stores' = Ledger("neo4j")
  /\ pexec' = [pexec EXCEPT !.pc = AfterGraph, !.steps = Log("graph")]
  /\ UNCHANGED <<parse_jobs, reports, merchants, transactions, transaction_volume,
                 graph, vectors>>
  /\ UNCHANGED persistFrame

\* tasks.py 142-161, pinecone_persist.py 12-45: no chunks, nothing to do;
\* otherwise embed and call store.upsert(payload): one positional argument
\* for a method whose only parameter is keyword-only (pinecone_client.py
\* 34-40).
PPersistEmbeddings ==
  /\ pexec.pc = "vector"
  /\ LET payload == VectorPayload(PersistBank, pexec.norm) IN
       IF payload = {}
       THEN /\ stores' = Ledger("pinecone")
            /\ pexec' = [pexec EXCEPT !.pc = "mark", !.steps = Log("vector")]
            /\ UNCHANGED vectors
       ELSE IF CallBinds(1, 0)
       THEN /\ vectors' = {v \in vectors : \A p \in payload : p[1] # v[1]} \cup payload
            /\ stores' = Ledger("pinecone")
            /\ pexec' = [pexec EXCEPT !.pc = "mark", !.steps = Log("vector")]
       ELSE /\ pexec' = [pexec EXCEPT !.pc = "handler", !.err = "TypeError"]
            /\ UNCHANGED <<vectors, stores>>
  /\ UNCHANGED <<parse_jobs, reports, merchants, transactions, transaction_volume,
                 graph>>
  /\ UNCHANGED persistFrame

\* Variant: the job is marked SUCCESS as soon as the database writes are done.
PMarkSuccess_Early ==
  /\ pexec.pc \in {"mark", "graph", "vector"}
  /\ parse_jobs' = SetJobStatus(pexec.job, "SUCCESS", "NULL")
  /\ pexec' = [pexec EXCEPT !.pc = "done", !.steps = Log("success")]
  /\ UNCHANGED <<stores, reports, merchants, transactions, transaction_volume,
                 graph, vectors>>
  /\ UNCHANGED persistFrame

\* tasks.py 163-174: UPDATE ... SET status = 'SUCCESS'.
PMarkSuccess ==
  /\ pexec.pc = "mark"
  /\ parse_jobs' = SetJobStatus(pexec.job, "SUCCESS", "NULL")
  /\ pexec' = [pexec EXCEPT !.pc = "done", !.steps = Log("success")]
  /\ UNCHANGED <<stores, reports, merchants, transactions, transaction_volume,
                 graph, vectors>>
  /\ UNCHANGED persistFrame

\* tasks.py 175-187: UPDATE ... SET status = 'FAILED', error = str(e); raise.
PFailureHandler ==
  /\ pexec.pc = "handler"
  /\ parse_jobs' = SetJobStatus(pexec.job, "FAILED", pexec.err)
  /\ pexec' = [pexec EXCEPT !.pc = "failed"]
  /\ UNCHANGED <<stores, reports, merchants, transactions, transaction_volume,
                 graph, vectors>>
  /\ UNCHANGED persistFrame

\* tasks.py 176-185 raising: the database is unavailable for the UPDATE of
\* the except branch as well.
PFailureHandlerError ==
  /\ pexec.pc = "handler"
  /\ pexec.outage
  /\ pexec' = [pexec EXCEPT !.pc = "failed"]
  /\ UNCHANGED <<parse_jobs, stores, reports, merchants, transactions,
                 transaction_volume, graph, vectors>>
  /\ UNCHANGED persistFrame

PersistNext ==
  \/ \E a \in Uploads : PClaim(a)
  \/ PParse
  \/ \E norm \in UNION {NormResults(r) : r \in Uploads} : PNormalize(norm)
  \/ PNormalizePdfRaise
  \/ POutage
  \/ PPersistRelational
  \/ PPersistTimeseries
  \/ PPersistGraphTx
  \/ PPersistGraphDone
  \/ PPersistEmbeddings
  \/ PMarkSuccess
  \/ PFailureHandler
  \/ PFailureHandlerError

\* Initially: no execution, empty stores.
PersistIdle ==
  /\ pexec = PExecInit
  /\ settings = [neo4j |-> FALSE, pinecone |-> FALSE]
  /\ reports = <<>>
  /\ merchants = <<>>
  /\ transactions = <<>>
  /\ transaction_volume = <<>>
  /\ graph = EmptyGraph
  /\ vectors = {}

DetOf(ff) ==
  IF ff = "PDF" THEN [file_format |-> "PDF", pdf_kind |-> "DIGITAL"]
  ELSE [file_format |-> ff, pdf_kind |-> "NULL"]

Uploaded(u, ff) ==
  [UpInit EXCEPT !.pc = "done", !.checksum = u, !.det = DetOf(ff),
                 !.object_key = ObjectKey(u, ff), !.created_new_artifact = TRUE,
                 !.artifact_id = u, !.task_id = u, !.did_put = TRUE, !.did_send = TRUE]

\* Every upload 1..NumUploads has registered its own file (CSV or PDF) and
\* enqueued its job; the optional stores are configured or not.
PersistInit ==
  /\ \E ff \in [Uploads -> {"CSV", "PDF"}] :
       /\ up = [u \in Uploads |-> Uploaded(u, ff[u])]
       /\ objects = {ObjectKey(u, ff[u]) : u \in Uploads}
       /\ artifacts = {[artifact_id |-> u, checksum_sha256 |-> u,
                        file_format |-> ff[u], pdf_kind |-> DetOf(ff[u]).pdf_kind,
                        object_key |-> ObjectKey(u, ff[u])] : u \in Uploads}
       /\ results = [u \in Uploads |->
                       [report_id |-> u, checksum_sha256 |-> u, file_format |-> ff[u],
                        pdf_kind |-> DetOf(ff[u]).pdf_kind, artifact_id |-> u,
                        parse_status |-> "QUEUED"]]
  /\ parse_jobs = {[job_id |-> u, artifact_id |-> u, status |-> "QUEUED",
                    celery_task_id |-> u, error |-> "NULL"] : u \in Uploads}
  /\ report_uploads = [u \in Uploads |->
                         [report_id |-> u, artifact_id |-> u, checksum_sha256 |-> u]]
  /\ queue = {[seq |-> 0, task_id |-> u, artifact_id |-> u, bank_id |-> PersistBank,
               retries |-> 0, countdown |-> 0] : u \in Uploads}
  /\ errors = <<>>
  /\ WorkerInit
  /\ pexec = PExecInit
  /\ settings \in [neo4j : BOOLEAN, pinecone : BOOLEAN]
  /\ reports = <<>>
  /\ merchants = <<>>
  /\ transactions = <<>>
  /\ transaction_volume = <<>>
  /\ graph = EmptyGraph
  /\ vectors = {}

\* --------------------------------------------------- normalization model
\* One call of normalize_tabular or normalize_pdf_elements
\* (normalize/flow.py), taken row by row: the mapping oracle's answer and
\* the rows are the inputs.
MaxRows == 2
base_line == 2
mapping_confidence_threshold == 70    \* 0.70, confidences in hundredths
DatetimeMax == 10                     \* datetime.max, in abstract time units

VARIABLES
  nrun                 \* the normalization call: position and locals

normVars == <<nrun>>

PyNone == "None"
Confidences == {50, mapping_confidence_threshold, 90}

REQUIRED_CANONICAL_FIELDS ==
  <<"transaction_id", "amount", "currency", "timestamp_utc", "merchant_id",
    "card_network">>

\* ---- validation primitives (normalize/validate.py)
EmptyRowRef == [sheet_name |-> PyNone, source_row_number |-> 0, page_number |-> 0]
TabularRowRef(sheet, n) ==
  [sheet_name |-> sheet, source_row_number |-> n, page_number |-> 0]
PdfRowRef(page) ==
  [sheet_name |-> PyNone, source_row_number |-> 0, page_number |-> page]

ValidationErrorItem(code, field, row_ref) ==
  [code |-> code, field |-> field, row_ref |-> row_ref]
_err(code, field, row_ref) == ValidationErrorItem(code, field, row_ref)

\* str(value).strip() over the raw cell texts of the model.
Strip(s) == IF s \in {"", " "} THEN "" ELSE s

\* ---- amounts as text: a string is the sequence of its characters
Whitespace == {" "}
DigitChars == <<"0", "1", "2", "3", "4", "5", "6", "7", "8", "9">>
IsDigit(c) == \E i \in DOMAIN DigitChars : DigitChars[i] = c
DigitValue(c) == (CHOOSE i \in DOMAIN DigitChars : DigitChars[i] = c) - 1
AllDigits(s) == \A i \in DOMAIN s : IsDigit(s[i])

RECURSIVE IntOf(_)
IntOf(s) ==
  IF s = <<>> THEN 0
  ELSE 10 * IntOf(SubSeq(s, 1, Len(s) - 1)) + DigitValue(s[Len(s)])

\* str(value) of the raw cell texts of the model.
StrOf(value) ==
  CASE value = "12.50" -> <<"1", "2", ".", "5", "0">>
    [] value = "NaN"   -> <<"N", "a", "N">>
    [] value = "abc"   -> <<"a", "b", "c">>
    [] value = " "     -> <<" ">>
    [] OTHER           -> <<>>

\* str.strip()
RECURSIVE LStrip(_)
LStrip(s) == IF s # <<>> /\ Head(s) \in Whitespace THEN LStrip(Tail(s)) ELSE s
RECURSIVE RStrip(_)
RStrip(s) ==
  IF s # <<>> /\ s[Len(s)] \in Whitespace THEN RStrip(SubSeq(s, 1, Len(s) - 1)) ELSE s
StripText(s) == RStrip(LStrip(s))

\* s.replace(c, "")
Without(s, c) == SelectSeq(s, LAMBDA x : x # c)

\* s.replace(",", "").replace("$", "").strip()
Unformat_Keep(s) == StripText(s)
Unformat(s) == StripText(Without(Without(s, ","), "$"))

\* Parentheses for negative: "-" + s2[1:-1].strip()
Unparen(s2) ==
  IF s2 # <<>> /\ Head(s2) = "(" /\ s2[Len(s2)] = ")"
  THEN <<"-">> \o StripText(SubSeq(s2, 2, Len(s2) - 1))
  ELSE s2

\* A finite Decimal is (-1)^sign * coeff * 10^exp, as Decimal.as_tuple().
DecimalTuple(sign, coeff, exp) == [sign |-> sign, coeff |-> coeff, exp |-> exp]
Finite(d) == [raised |-> FALSE, nan |-> FALSE, infinite |-> FALSE, d |-> d]
InvalidOperation ==
  [raised |-> TRUE, nan |-> FALSE, infinite |-> FALSE, d |-> DecimalTuple(0, 0, 0)]
DecimalNaN ==
  [raised |-> FALSE, nan |-> TRUE, infinite |-> FALSE, d |-> DecimalTuple(0, 0, 0)]
DecimalInfinity ==
  [raised |-> FALSE, nan |-> FALSE, infinite |-> TRUE, d |-> DecimalTuple(0, 0, 0)]

LowerChar(c) ==
  CASE c = "N" -> "n" [] c = "A" -> "a" [] c = "I" -> "i" [] c = "F" -> "f"
    [] c = "T" -> "t" [] c = "Y" -> "y" [] c = "S" -> "s" [] c = "E" -> "e"
    [] OTHER -> c
Lower(s) == [i \in DOMAIN s |-> LowerChar(s[i])]

IndexOf(s, c) ==
  IF \E i \in DOMAIN s : s[i] = c
  THEN CHOOSE i \in DOMAIN s : s[i] = c /\ \A j \in 1..(i - 1) : s[j] # c
  ELSE 0
HasPrefix(s, p) == Len(s) >= Len(p) /\ SubSeq(s, 1, Len(p)) = p
\* s up to its first c, and s after it (s and nothing when c is not in s).
Before(s, c) == SubSeq(s, 1, (IF IndexOf(s, c) = 0 THEN Len(s) ELSE IndexOf(s, c) - 1))
After(s, c) == SubSeq(s, (IF IndexOf(s, c) = 0 THEN Len(s) ELSE IndexOf(s, c)) + 1, Len(s))

HasSign(s) == s # <<>> /\ Head(s) \in {"+", "-"}
Unsigned(s) == IF HasSign(s) THEN Tail(s) ELSE s
SignOf(s) == IF s # <<>> /\ Head(s) = "-" THEN 1 ELSE 0

\* digits [. digits] or . digits
IsMantissa(m) ==
  /\ AllDigits(Before(m, "."))
  /\ AllDigits(After(m, "."))
  /\ Before(m, ".") \o After(m, ".") # <<>>
\* The exponent part after "e": an optional sign and at least one digit.
IsExponent(x) == Unsigned(x) # <<>> /\ AllDigits(Unsigned(x))
ExponentValue(x) ==
  IF SignOf(x) = 1 THEN 0 - IntOf(Unsigned(x)) ELSE IntOf(Unsigned(x))

\* An unsigned numeric value in lower case with mantissa m.
FiniteValue(sign, u, m) ==
  IF IsMantissa(m) /\ (IndexOf(u, "e") = 0 \/ IsExponent(After(u, "e")))
  THEN Finite(DecimalTuple(sign, IntOf(Before(m, ".") \o After(m, ".")),
                           (IF IndexOf(u, "e") = 0 THEN 0
                            ELSE ExponentValue(After(u, "e")))
                             - Len(After(m, "."))))
  ELSE InvalidOperation

UnsignedValue(sign, u) ==
  IF u \in {<<"i", "n", "f">>, <<"i", "n", "f", "i", "n", "i", "t", "y">>}
  THEN DecimalInfinity
  ELSE IF \/ HasPrefix(u, <<"n", "a", "n">>) /\ AllDigits(SubSeq(u, 4, Len(u)))
          \/ HasPrefix(u, <<"s", "n", "a", "n">>) /\ AllDigits(SubSeq(u, 5, Len(u)))
  THEN DecimalNaN
  ELSE FiniteValue(sign, u, Before(u, "e"))

SignedValue(t) == UnsignedValue(SignOf(t), Unsigned(t))

\* Decimal(s): surrounding whitespace and underscores are dropped; then
\* [sign] (digits [. digits] | . digits) [e [sign] digits], or [sign] followed
\* by inf, infinity, nan or snan (with optional digits), in any letter case.
\* Anything else raises InvalidOperation.
DecimalOf(s) == SignedValue(Lower(Without(StripText(s), "_")))

\* validate.py 19-37: the text of a value that is not None.
AmountFromText(text, field, row_ref) ==
  LET s == StripText(text) IN
    IF s = <<>>
    THEN [value |-> PyNone, errs |-> <<_err("amount_missing", field, row_ref)>>]
    ELSE LET dec == DecimalOf(Unparen(Unformat(s)))
         IN IF dec.raised \/ dec.nan \/ dec.infinite
            THEN [value |-> PyNone,
                  errs |-> <<_err("amount_invalid", field, row_ref)>>]
            ELSE [value |-> dec.d, errs |-> <<>>]

parse_amount(value, field, row_ref) ==
  IF value = PyNone
  THEN [value |-> PyNone, errs |-> <<_err("amount_missing", field, row_ref)>>]
  ELSE AmountFromText(StrOf(value), field, row_ref)

\* The currency codes of normalize/iso4217.py.
ISO4217_CODES == {"USD", "EUR"}
Upper(s) == CASE s = "usd" -> "USD" [] s = "eur" -> "EUR" [] OTHER -> s

validate_currency(value, field, row_ref) ==
  IF value = PyNone \/ Upper(Strip(value)) = ""
  THEN [value |-> PyNone, errs |-> <<_err("currency_missing", field, row_ref)>>]
  ELSE IF Upper(Strip(value)) \notin ISO4217_CODES
       THEN [value |-> PyNone,
             errs |-> <<_err("currency_invalid", field, row_ref)>>]
       ELSE [value |-> Upper(Strip(value)), errs |-> <<>>]

\* dateutil's parse over the raw timestamps of the model: a wall-clock time
\* and a UTC offset (naive when the text names no timezone).
DtParse(s) ==
  CASE s = "2024-01-01" ->
         [raised |-> FALSE, t |-> 1, naive |-> TRUE, utcoffset |-> 0]
    [] s = "2024-01-02T03:00+02:00" ->
         [raised |-> FALSE, t |-> 2, naive |-> FALSE, utcoffset |-> 1]
    [] s = "9999-12-31 23:59:59-05:00" ->
         [raised |-> FALSE, t |-> DatetimeMax, naive |-> FALSE, utcoffset |-> -1]
    [] OTHER -> [raised |-> TRUE, t |-> 0, naive |-> TRUE, utcoffset |-> 0]

\* dt.astimezone(timezone.utc): OverflowError outside the datetime range.
AsTimezoneUtc(t, utcoffset) ==
  IF t - utcoffset > DatetimeMax \/ t - utcoffset < 0
  THEN [raised |-> TRUE, t |-> 0]
  ELSE [raised |-> FALSE, t |-> t - utcoffset]

\* raised is the exception that leaves parse_timestamp_to_utc, if any.
parse_timestamp_to_utc(value, field, row_ref) ==
  IF value = PyNone \/ Strip(value) = ""
  THEN [raised |-> FALSE, value |-> PyNone,
        errs |-> <<_err("timestamp_missing", field, row_ref)>>]
  ELSE LET dt == DtParse(Strip(value))
       IN IF dt.raised
          THEN [raised |-> FALSE, value |-> PyNone,
                errs |-> <<_err("timestamp_invalid", field, row_ref)>>]
          ELSE LET utc == AsTimezoneUtc(dt.t, IF dt.naive THEN 0
                                              ELSE dt.utcoffset)
               IN [raised |-> utc.raised, value |-> utc.t, errs |-> <<>>]

clamp01(x) == IF x < 0 THEN 0 ELSE IF x > 100 THEN 100 ELSE x

\* ---- the mapping oracle (normalize/llm_mapper.py)
\* What the model endpoint answers: a lifecycle classification with its
\* confidence and one mapping per canonical field with its confidence, or
\* a failure of the call or of the response contract.
OracleMappings ==
  { [f \in {REQUIRED_CANONICAL_FIELDS[i] : i \in DOMAIN REQUIRED_CANONICAL_FIELDS}
       |-> IF f = low THEN 50 ELSE 90] : low \in {"none", "amount"} }
OracleAnswers ==
  [kind : {"response"}, lifecycle_stage : PersistStages,
   confidence_score : Confidences, mappings : OracleMappings]
    \cup {[kind |-> "error", lifecycle_stage |-> "AUTH", confidence_score |-> 0,
           mappings |-> CHOOSE m \in OracleMappings : TRUE]}
NoMapping ==
  [kind |-> PyNone, lifecycle_stage |-> "AUTH", confidence_score |-> 0,
   mappings |-> [f \in {} |-> 0]]

\* infer_mapping_via_llm without the lifecycle threshold of lines 55-56.
infer_mapping_via_llm_NoThreshold(llm_configured, answer) ==
  IF ~llm_configured
  THEN [raised |-> "MappingRejected", resp |-> NoMapping]
  ELSE IF answer.kind = "error"
       THEN [raised |-> "Exception", resp |-> NoMapping]
       ELSE [raised |-> PyNone,
             resp |-> [answer EXCEPT !.mappings =
                [f \in {g \in DOMAIN answer.mappings :
                          answer.mappings[g] >= mapping_confidence_threshold}
                   |-> answer.mappings[f]]]]

\* infer_mapping_via_llm: raised names the exception, resp the response with
\* the mappings below the threshold dropped.
infer_mapping_via_llm(llm_configured, answer) ==
  IF ~llm_configured
  THEN [raised |-> "MappingRejected", resp |-> NoMapping]
  ELSE IF answer.kind = "error"
       THEN [raised |-> "Exception", resp |-> NoMapping]
       ELSE IF answer.confidence_score < mapping_confidence_threshold
            THEN [raised |-> "MappingRejected", resp |-> NoMapping]
            ELSE [raised |-> PyNone,
                  resp |-> [answer EXCEPT !.mappings =
                     [f \in {g \in DOMAIN answer.mappings :
                               answer.mappings[g] >= mapping_confidence_threshold}
                        |-> answer.mappings[f]]]]

\* ---- the result (normalize/schema.py)
NoResult ==
  [returned |-> FALSE, record_count |-> 0, transactions |-> <<>>,
   errors |-> <<>>, mapping |-> NoMapping]
NormalizationResult(txs, record_count, mapping, errs) ==
  [returned |-> TRUE, record_count |-> record_count, transactions |-> txs,
   errors |-> errs, mapping |-> mapping]

RawSourceRef(source_type, page, element, sheet, row) ==
  [source_type |-> source_type, page_number |-> page, element_id |-> element,
   sheet_name |-> sheet, source_row_number |-> row]

TransactionFact(tx_id, amt, cur, ts, lifecycle, merch, net, ref, conf) ==
  [transaction_id |-> tx_id, amount |-> amt, currency |-> cur,
   timestamp_utc |-> ts, lifecycle_stage |-> lifecycle, merchant_id |-> merch,
   card_network |-> net, raw_source_ref |-> ref, confidence_score |-> conf]

\* ---- dedupe_transactions (normalize/validate.py)
\* The tie-breaker compares the row pointers as text. A text is the
\* sequence of its characters, a character a number in the order of the
\* character codes: the digits, then the letters, then "|".
Bar == 20
RECURSIVE Str(_)
Str(n) == IF n < 10 THEN <<n>> ELSE Str(n \div 10) \o <<n % 10>>
\* str(x or ""): None and 0 give the empty text.
StrOrEmpty(n) == IF n = 0 THEN <<>> ELSE Str(n)
SheetText(sheet) ==
  CASE sheet = "A" -> <<11>> [] sheet = "B" -> <<12>> [] OTHER -> <<>>

RECURSIVE LexLess(_, _)
LexLess(a, b) ==
  IF b = <<>> THEN FALSE
  ELSE IF a = <<>> THEN TRUE
  ELSE IF a[1] # b[1] THEN a[1] < b[1]
  ELSE LexLess(Tail(a), Tail(b))

\* "|".join of the pointer parts after object_key, which all the facts of
\* one call share.
TieBreak(t) ==
  StrOrEmpty(t.raw_source_ref.page_number) \o <<Bar>>
    \o SheetText(t.raw_source_ref.sheet_name) \o <<Bar>>
    \o StrOrEmpty(t.raw_source_ref.source_row_number) \o <<Bar>>
    \o StrOrEmpty(t.raw_source_ref.element_id)

\* A tie-breaker that never prefers the later fact.
TieLess_Never(a, b) == FALSE

TieLess(a, b) == LexLess(TieBreak(a), TieBreak(b))

DedupeKey(t) == <<t.transaction_id, t.lifecycle_stage>>

\* best[k] after the loop over the first n transactions (index into txs).
RECURSIVE BestAfter(_, _, _)
BestAfter(txs, k, n) ==
  IF n = 0 THEN 0
  ELSE LET cur == BestAfter(txs, k, n - 1)
           t == txs[n]
       IN IF DedupeKey(t) # k THEN cur
          ELSE IF cur = 0 THEN n
          ELSE IF t.confidence_score > txs[cur].confidence_score THEN n
          ELSE IF t.confidence_score = txs[cur].confidence_score
                  /\ TieLess(t, txs[cur]) THEN n
          ELSE cur

\* out.sort by (transaction_id, lifecycle_stage, confidence_score).
IdRank(id) == CHOOSE i \in DOMAIN TxIds : TxIds[i] = id
StageRank(s) == CHOOSE i \in DOMAIN StageOrder : StageOrder[i] = s
SortBefore(a, b) ==
  \/ IdRank(a.transaction_id) < IdRank(b.transaction_id)
  \/ /\ a.transaction_id = b.transaction_id
     /\ StageRank(a.lifecycle_stage) < StageRank(b.lifecycle_stage)

RECURSIVE SortFacts(_)
SortFacts(S) ==
  IF S = {} THEN <<>>
  ELSE LET first == CHOOSE a \in S : \A b \in S \ {a} : SortBefore(a, b)
       IN <<first>> \o SortFacts(S \ {first})

dedupe_transactions(txs) ==
  SortFacts({txs[BestAfter(txs, DedupeKey(txs[i]), Len(txs))] : i \in DOMAIN txs})

\* ---- normalize_tabular (normalize/flow.py 37-206)
NRunInit ==
  [pc |-> "idle", path |-> PyNone, answer |-> NoMapping, inference |-> PyNone,
   lifecycle |-> "AUTH", mapping |-> NoMapping, i |-> 0, txs |-> <<>>,
   errors |-> <<>>, result |-> NoResult, exc |-> PyNone]

RawValues ==
  [transaction_id : {"", "t1", "t2"},
   amount : {PyNone, "abc", "NaN", "12.50"},
   currency : {"", "usd", "XXQ"},
   timestamp_utc : {"", "junk", "2024-01-01", "2024-01-02T03:00+02:00",
                    "9999-12-31 23:59:59-05:00"},
   merchant_id : {"", "m1"},
   card_network : {"", "VISA"}]

\* get_by_canon: the cell of the raw field mapped to canon, None when the
\* mapping has none (raw fields carry the name of their canonical field).
get_by_canon(mapping, values, canon) ==
  IF canon \in DOMAIN mapping.mappings THEN values[canon] ELSE PyNone

RECURSIVE SumOver(_, _)
SumOver(f, S) ==
  IF S = {} THEN 0
  ELSE LET x == CHOOSE y \in S : TRUE IN f[x] + SumOver(f, S \ {x})

\* Average of the confidences of the mappings used.
MappingConfidence(mapping) ==
  clamp01(SumOver(mapping.mappings, DOMAIN mapping.mappings)
            \div Max(1, Cardinality(DOMAIN mapping.mappings)))

Missing(v) == v = PyNone \/ Strip(v) = ""

\* One pass of the row loop: the exception that leaves it (if any), the
\* facts appended and the errors appended.
TabularRow(mapping, lifecycle, values, sheet, row_number) ==
  LET row_ref == TabularRowRef(sheet, row_number)
      tx_id == get_by_canon(mapping, values, "transaction_id")
      merch == get_by_canon(mapping, values, "merchant_id")
      net == get_by_canon(mapping, values, "card_network")
      amt == parse_amount(get_by_canon(mapping, values, "amount"),
                          "amount", row_ref)
      cur == validate_currency(get_by_canon(mapping, values, "currency"),
                               "currency", row_ref)
      ts == parse_timestamp_to_utc(get_by_canon(mapping, values, "timestamp_utc"),
                                   "timestamp_utc", row_ref)
      drop(code, field) ==
        [raised |-> PyNone, txs |-> <<>>,
         errs |-> <<ValidationErrorItem(code, field, row_ref)>>]
  IN IF ts.raised
     THEN [raised |-> "OverflowError", txs |-> <<>>, errs |-> <<>>]
     ELSE IF amt.errs \o cur.errs \o ts.errs # <<>>
     THEN [raised |-> PyNone, txs |-> <<>>,
           errs |-> amt.errs \o cur.errs \o ts.errs]
     ELSE IF Missing(tx_id) THEN drop("transaction_id_missing", "transaction_id")
     ELSE IF Missing(merch) THEN drop("merchant_id_missing", "merchant_id")
     ELSE IF Missing(net) THEN drop("card_network_missing", "card_network")
     ELSE [raised |-> PyNone, errs |-> <<>>,
           txs |-> <<TransactionFact(Strip(tx_id), amt.value, cur.value,
                       ts.value, lifecycle, Strip(merch), Strip(net),
                       RawSourceRef("csv_row", 0, 0, sheet, row_number),
                       MappingConfidence(mapping))>>]

normFrame == UNCHANGED <<up, objects, artifacts, parse_jobs, report_uploads, queue,
                         results, errors, exec, stores, dlq_events, last_result,
                         redeliveries, success_marks, body_completions, pexec,
                         settings, reports, merchants, transactions,
                         transaction_volume, graph, vectors>>

\* tabular_json has no table (lines 59-63).
NTabularNoTables ==
  /\ nrun.pc = "idle"
  /\ nrun' = [nrun EXCEPT
       !.pc = "done", !.path = "tabular",
       !.errors = <<ValidationErrorItem("no_tables", PyNone, EmptyRowRef)>>,
       !.result = NormalizationResult(<<>>, 0, NoMapping,
                    <<ValidationErrorItem("no_tables", PyNone, EmptyRowRef)>>)]
  /\ normFrame

\* The mapping inference of a document with tables (lines 105-119).
NTabularInfer(llm_configured, answer) ==
  /\ nrun.pc = "idle"
  /\ LET inf == infer_mapping_via_llm(llm_configured, answer)
         asked == IF llm_configured THEN answer ELSE NoMapping
         rejected == <<ValidationErrorItem("mapping_rejected", PyNone, EmptyRowRef)>>
     IN nrun' =
          IF inf.raised = "MappingRejected"
          THEN [nrun EXCEPT !.pc = "done", !.path = "tabular", !.answer = asked,
                            !.inference = inf.raised, !.errors = rejected,
                            !.result = NormalizationResult(<<>>, 0, NoMapping,
                                                           rejected)]
          ELSE IF inf.raised # PyNone
          THEN [nrun EXCEPT !.pc = "raised", !.path = "tabular", !.answer = asked,
                            !.inference = inf.raised, !.exc = inf.raised]
          ELSE [nrun EXCEPT !.pc = "rows", !.path = "tabular", !.answer = asked,
                            !.mapping = inf.resp,
                            !.lifecycle = inf.resp.lifecycle_stage]
  /\ normFrame

\* One row of the table (lines 135-202).
NTabularRow(values) ==
  /\ nrun.pc = "rows"
  /\ nrun.path = "tabular"
  /\ nrun.i < MaxRows
  /\ LET out == TabularRow(nrun.mapping, nrun.lifecycle, values, PyNone,
                           base_line + nrun.i)
     IN nrun' =
          IF out.raised # PyNone
          THEN [nrun EXCEPT !.pc = "raised", !.exc = out.raised, !.i = @ + 1]
          ELSE [nrun EXCEPT !.i = @ + 1, !.txs = @ \o out.txs,
                            !.errors = @ \o out.errs]
  /\ normFrame

\* After the last row (lines 204-206).
NTabularFinish ==
  /\ nrun.pc = "rows"
  /\ nrun.path = "tabular"
  /\ nrun' = [nrun EXCEPT
       !.pc = "done",
       !.result = NormalizationResult(dedupe_transactions(nrun.txs),
                    Len(dedupe_transactions(nrun.txs)), nrun.mapping,
                    nrun.errors)]
  /\ normFrame

\* ---- normalize_pdf_elements (normalize/flow.py 209-324)
\* The names normalize_pdf_elements can read: its parameters and the names
\* its module binds.
NormalizePdfNames ==
  {"bank_id", "artifact_id", "report_id", "report_type", "ingestion_time",
   "source_network", "source_object_key", "intermediate", "layout",
   "infer_mapping_via_llm", "MappingRejected", "LifecycleStage"}

\* The inference call of lines 232-240: its argument settings is looked up
\* before the call is made.
PdfInference(llm_configured, answer) ==
  IF "settings" \notin NormalizePdfNames
  THEN [raised |-> "NameError", resp |-> NoMapping]
  ELSE infer_mapping_via_llm(llm_configured, answer)

PdfValues ==
  [transaction_id : {PyNone, "t1", "t2"},
   amount : {PyNone, "abc", "12.50"},
   currency : {PyNone, "usd"},
   timestamp_utc : {"junk", "2024-01-01"},
   confidence : {50, 90}]

\* Lifecycle inference and the layout check (lines 228-247).
NPdfInfer(llm_configured, answer, layout) ==
  /\ nrun.pc = "idle"
  /\ LET inf == PdfInference(llm_configured, answer)
         asked == IF inf.raised = "NameError" \/ ~llm_configured
                  THEN NoMapping ELSE answer
         errs == IF inf.raised # PyNone
                 THEN <<ValidationErrorItem("lifecycle_inference_failed", PyNone,
                                            EmptyRowRef)>>
                 ELSE <<>>
         lifecycle == IF inf.raised # PyNone THEN "AUTH"
                      ELSE inf.resp.lifecycle_stage
         missing == <<ValidationErrorItem("layout_missing", PyNone, EmptyRowRef)>>
     IN nrun' =
          IF ~layout
          THEN [nrun EXCEPT !.pc = "done", !.path = "pdf", !.answer = asked,
                            !.inference = inf.raised, !.lifecycle = lifecycle,
                            !.mapping = inf.resp, !.errors = errs \o missing,
                            !.result = NormalizationResult(<<>>, 0, inf.resp,
                                                           errs \o missing)]
          ELSE [nrun EXCEPT !.pc = "rows", !.path = "pdf", !.answer = asked,
                            !.inference = inf.raised, !.lifecycle = lifecycle,
                            !.mapping = inf.resp, !.errors = errs]
  /\ normFrame

\* One row of layout elements (lines 273-320).
NPdfRow(values) ==
  /\ nrun.pc = "rows"
  /\ nrun.path = "pdf"
  /\ nrun.i < MaxRows
  /\ LET row_ref == PdfRowRef(1)
         amt == parse_amount(values.amount, "amount", row_ref)
         cur == validate_currency(values.currency, "currency", row_ref)
         ts == parse_timestamp_to_utc(values.timestamp_utc, "timestamp_utc",
                                      row_ref)
     IN nrun' =
          IF values.transaction_id = PyNone
          THEN [nrun EXCEPT !.i = @ + 1]
          ELSE IF ts.raised
          THEN [nrun EXCEPT !.pc = "raised", !.exc = "OverflowError", !.i = @ + 1]
          ELSE IF amt.errs \o cur.errs \o ts.errs # <<>>
          THEN [nrun EXCEPT !.i = @ + 1,
                            !.errors = @ \o amt.errs \o cur.errs \o ts.errs]
          ELSE [nrun EXCEPT !.i = @ + 1,
                  !.txs = @ \o <<TransactionFact(values.transaction_id, amt.value,
                                   cur.value, ts.value, nrun.lifecycle, "UNKNOWN",
                                   "UNKNOWN",
                                   RawSourceRef("pdf_element", 1, nrun.i + 1,
                                                PyNone, 0),
                                   clamp01(values.confidence))>>]
  /\ normFrame

\* After the last row (lines 322-324).
NPdfFinish ==
  /\ nrun.pc = "rows"
  /\ nrun.path = "pdf"
  /\ nrun' = [nrun EXCEPT
       !.pc = "done",
       !.result = NormalizationResult(dedupe_transactions(nrun.txs),
                    Len(dedupe_transactions(nrun.txs)), nrun.mapping,
                    nrun.errors)]
  /\ normFrame

NormNext ==
  \/ NTabularNoTables
  \/ \E llm_configured \in BOOLEAN, answer \in OracleAnswers :
       NTabularInfer(llm_configured, answer)
  \/ \E values \in RawValues : NTabularRow(values)
  \/ NTabularFinish
  \/ \E llm_configured \in BOOLEAN, answer \in OracleAnswers, layout \in BOOLEAN :
       NPdfInfer(llm_configured, answer, layout)
  \/ \E values \in PdfValues : NPdfRow(values)
  \/ NPdfFinish

NormIdle == nrun = NRunInit


\* ------------------------------------------------------- function calls
\* One call of one of the program's pure functions, on an input drawn from
\* a bounded set.
MaxFacts == 3

VARIABLES
  fcall                \* the call: function, argument, result

callVars == <<fcall>>
programVars == <<ingestVars, workerVars, persistVars, normVars>>

NoCall == [fn |-> "none", arg |-> <<>>, out |-> <<>>]
CallIdle == fcall = NoCall

\* ---- dedupe_transactions (normalize/validate.py 84-117)
\* Candidate facts as normalize_tabular builds them: every row has its own
\* row number.
DedupeRows == {2, 9, 10}
DedupeFacts ==
  {TransactionFact(id, 1250, "USD", 1, stage, "m1", "VISA",
                   RawSourceRef("csv_row", 0, 0, PyNone, row), conf) :
     id \in {TxIds[i] : i \in DOMAIN TxIds}, stage \in PersistStages,
     row \in DedupeRows, conf \in {50, 90}}
DedupeInputs ==
  {txs \in UNION {[1..n -> DedupeFacts] : n \in 0..MaxFacts} :
     \A i, j \in DOMAIN txs :
       i # j => txs[i].raw_source_ref # txs[j].raw_source_ref}

CallDedupe(txs) ==
  /\ CallIdle
  /\ fcall' = [fn |-> "dedupe_transactions", arg |-> txs,
               out |-> dedupe_transactions(txs)]
  /\ UNCHANGED programVars

\* Attempt numbers handed to backoff_with_jitter: Celery's retry counter is
\* never negative, the function itself accepts any integer.
MaxBackoffAttempt == 9
BackoffAttempts == (0 - 2)..MaxBackoffAttempt

CallBackoff(attempt, d) ==
  /\ CallIdle
  /\ d \in backoff_with_jitter(attempt, 2, 300)
  /\ fcall' = [fn |-> "backoff_with_jitter", arg |-> <<attempt>>, out |-> <<d>>]
  /\ UNCHANGED programVars

\* Stage records handed to the reconciler: any list, a stage possibly more
\* than once. 99 and 100 differ by exactly 1 %, 100 and 102 by more.
MaxStageRecords == 3
DaySeconds == 24 * 60 * 60
StageAmounts == {0, 99, 100, 102}
StageTimes == {0, DaySeconds}
StageRecords ==
  {LifecycleStageInfo(StageOrder[s], a, c, t) :
     s \in DOMAIN StageOrder, a \in StageAmounts, c \in {"USD", "EUR"},
     t \in StageTimes}
StageInputs == UNION {[1..n -> StageRecords] : n \in 0..MaxStageRecords}

CallAnalyze(stages) ==
  /\ CallIdle
  /\ fcall' = [fn |-> "analyze_lifecycle", arg |-> stages,
               out |-> <<analyze_lifecycle(stages)>>]
  /\ UNCHANGED programVars

\* Amount texts handed to parse_amount: every text of up to MaxAmountLen
\* characters over AmountChars, and the texts of AmountExamples.
MaxAmountLen == 3
AmountChars == {"0", "1", "5", ".", "-", "+", "$", ",", "(", ")", " ", "e", "_"}
AmountExamples ==
  {<<"$", "1", ",", "2", "3", "4", ".", "5", "6">>,
   <<"(", "4", "5", ".", "0", "0", ")">>,
   <<"-", "1", "0">>,
   <<"(", "$", "4", "5", ".", "0", "0", ")">>,
   <<" ", "1", "2", ".", "5", "0", " ">>,
   <<"N", "a", "N">>,
   <<"n", "a", "n">>,
   <<"s", "N", "a", "N">>,
   <<"i", "n", "f">>,
   <<"-", "I", "n", "f", "i", "n", "i", "t", "y">>,
   <<"a", "b", "c">>,
   <<"1", "2", "a">>,
   <<"1", ".", "2", ".", "3">>,
   <<"1", "E", "+", "2">>}
AmountTexts ==
  UNION {[1..n -> AmountChars] : n \in 0..MaxAmountLen} \cup AmountExamples

CallParseAmount(text) ==
  /\ CallIdle
  /\ fcall' = [fn |-> "parse_amount", arg |-> text,
               out |-> <<AmountFromText(text, "amount", EmptyRowRef)>>]
  /\ UNCHANGED programVars

CallParseAmountNone ==
  /\ CallIdle
  /\ fcall' = [fn |-> "parse_amount(None)", arg |-> <<>>,
               out |-> <<parse_amount(PyNone, "amount", EmptyRowRef)>>]
  /\ UNCHANGED programVars

\* ---- persist_embeddings (persistence/pinecone_persist.py 20-42)
\* The (id, metadata) payload persist_embeddings builds for a bank and a
\* normalization result of either report.
VectorInputs == Banks \X UNION {NormResults(rid) : rid \in Uploads}

CallVectorPayload(bank_id, norm) ==
  /\ CallIdle
  /\ fcall' = [fn |-> "persist_embeddings", arg |-> <<bank_id, norm>>,
               out |-> <<VectorPayload(bank_id, norm)>>]
  /\ UNCHANGED programVars

\* One call is made, from the idle state; its inputs are enumerated only
\* there.
Inputs(S) == IF CallIdle THEN S ELSE {}

CallNext ==
  \/ \E txs \in Inputs(DedupeInputs) : CallDedupe(txs)
  \/ \E attempt \in Inputs(BackoffAttempts) :
       \E d \in backoff_with_jitter(attempt, 2, 300) : CallBackoff(attempt, d)
  \/ \E stages \in Inputs(StageInputs) : CallAnalyze(stages)
  \/ \E text \in Inputs(AmountTexts) : CallParseAmount(text)
  \/ CallParseAmountNone
  \/ \E input \in Inputs(VectorInputs) : CallVectorPayload(input[1], input[2])

\* ------------------------------------------------------- specifications
vars == <<up, objects, artifacts, parse_jobs, report_uploads, queue,
          results, errors, exec, stores, dlq_events, last_result, redeliveries,
          success_marks, body_completions, pexec, settings, reports, merchants,
          transactions, transaction_volume, graph, vectors, nrun, fcall>>

\* Upload calls alone: the database, bucket and broker start empty.
Init == IngestInit /\ WorkerInit
IngestStart == Init /\ PersistIdle /\ NormIdle /\ CallIdle
SpecIngest ==
  IngestStart
    /\ [][UploadNext /\ UNCHANGED workerVars /\ UNCHANGED persistVars
           /\ UNCHANGED normVars /\ UNCHANGED callVars]_vars

\* Workers processing the job of one artifact that a first upload call has
\* registered and enqueued.
FirstDet == [file_format |-> "CSV", pdf_kind |-> "NULL"]
FirstUpload ==
  [UpInit EXCEPT !.pc = "done", !.checksum = 1, !.det = FirstDet,
                 !.object_key = ObjectKey(1, "CSV"),
                 !.created_new_artifact = TRUE, !.artifact_id = 1, !.task_id = 1,
                 !.did_put = TRUE, !.did_send = TRUE, !.job_status = "QUEUED",
                 !.status_at_setref = "QUEUED"]

JobInit ==
  /\ up = [u \in Uploads |-> IF u = 1 THEN FirstUpload ELSE UpInit]
  /\ objects = {ObjectKey(1, "CSV")}
  /\ artifacts = {[artifact_id |-> 1, checksum_sha256 |-> 1, file_format |-> "CSV",
                   pdf_kind |-> "NULL", object_key |-> ObjectKey(1, "CSV")]}
  /\ parse_jobs = {[job_id |-> 1, artifact_id |-> 1, status |-> "QUEUED",
                    celery_task_id |-> 1, error |-> "NULL"]}
  /\ report_uploads = <<[report_id |-> 1, artifact_id |-> 1, checksum_sha256 |-> 1]>>
  /\ queue = {[seq |-> 0, task_id |-> 1, artifact_id |-> 1, bank_id |-> "bankA",
               retries |-> 0, countdown |-> 0]}
  /\ results = <<[report_id |-> 1, checksum_sha256 |-> 1, file_format |-> "CSV",
                  pdf_kind |-> "NULL", artifact_id |-> 1, parse_status |-> "QUEUED"]>>
  /\ errors = <<>>
  /\ WorkerInit

WorkerStart == JobInit /\ PersistIdle /\ NormIdle /\ CallIdle
Spec ==
  WorkerStart
    /\ [][WorkerNext /\ UNCHANGED persistVars /\ UNCHANGED normVars
           /\ UNCHANGED callVars]_vars

\* Upload calls and workers together, from the empty database: the calls
\* upload the same bytes (one checksum, detected as CSV) for either bank
\* while the workers process the job; the broker holds one copy of each
\* message, and a retry message is delivered while its retry count is at
\* most MaxPipelineRetries.
MaxPipelineRetries == 1

PipelineUpload ==
  \E u \in Uploads :
    \/ \E b \in Banks : UploadBegin(u, 1, FirstDet, b)
    \/ UploadLookup(u)
    \/ UploadPut(u)
    \/ UploadPutFail(u)
    \/ UploadCommit(u)
    \/ UploadCommitIntegrityError(u)
    \/ UploadCommitFail(u)
    \/ UploadEnqueue(u)
    \/ UploadEnqueueFail(u)
    \/ UploadSetTaskRef(u)
    \/ UploadRefresh(u)
    \/ UploadFailureCleanup(u)

PipelineWorker ==
  \/ \E m \in queue : EtaElapsed(m)
  \/ \E w \in Workers :
       \/ \E m \in queue : m.retries <= MaxPipelineRetries /\ Deliver(w, m)
       \/ WorkerCrash(w)
       \/ Claim(w)
       \/ ClaimError(w)
       \/ RunBody(w)
       \/ \E k \in 0..3 : BodyFail(w, k)
       \/ MarkSuccess(w)
       \/ MarkSuccessError(w)
       \/ FailureHandler(w)
       \/ FailureHandlerError(w)
       \/ \E d \in 0..32 : ScheduleRetry(w, d)

PipelineNext ==
  \/ PipelineUpload /\ UNCHANGED workerVars
  \/ PipelineWorker

SpecPipeline ==
  IngestStart
    /\ [][PipelineNext /\ UNCHANGED persistVars /\ UNCHANGED normVars
           /\ UNCHANGED callVars]_vars

\* The same workers when no worker process dies and the broker holds one
\* copy of each message; every due message is eventually delivered, every
\* countdown eventually elapses and every execution eventually takes its
\* next step.
ExecutionStep(w) ==
  \/ Claim(w)
  \/ ClaimError(w)
  \/ RunBody(w)
  \/ \E k \in 0..3 : BodyFail(w, k)
  \/ MarkSuccess(w)
  \/ MarkSuccessError(w)
  \/ FailureHandler(w)
  \/ FailureHandlerError(w)
  \/ \E d \in 0..32 : ScheduleRetry(w, d)
  \/ WriteDlq(w)

LiveNext ==
  \/ \E m \in queue : EtaElapsed(m)
  \/ \E w \in Workers : \E m \in queue : Deliver(w, m)
  \/ \E w \in Workers : ExecutionStep(w)

\* Every step of these actions changes the queue or an execution.
liveVars == <<ingestVars, workerVars>>
Fairness ==
  /\ WF_liveVars(\E m \in queue : EtaElapsed(m))
  /\ WF_liveVars(\E w \in Workers : \E m \in queue : Deliver(w, m))
  /\ \A w \in Workers : WF_liveVars(ExecutionStep(w))

SpecLive ==
  WorkerStart
    /\ [][LiveNext /\ UNCHANGED persistVars /\ UNCHANGED normVars
           /\ UNCHANGED callVars]_vars
    /\ Fairness

\* One execution after another, store write by store write.
PersistStart == PersistInit /\ NormIdle /\ CallIdle
SpecPersist ==
  PersistStart
    /\ [][PersistNext /\ UNCHANGED normVars /\ UNCHANGED callVars]_vars

\* One normalization call, row by row.
NormalizeStart == Init /\ PersistIdle /\ NormIdle /\ CallIdle
SpecNormalize == NormalizeStart /\ [][NormNext /\ UNCHANGED callVars]_vars

\* Calls of the pure functions.
CallsStart == Init /\ PersistIdle /\ NormIdle /\ CallIdle
SpecCalls == CallsStart /\ [][CallNext]_vars

\* ---------------------------------------------------- intake properties
UploadOk(u) == up[u].pc = "done" /\ up[u].err = "none"
Started(c) == {u \in Uploads : up[u].pc # "idle" /\ up[u].checksum = c}
ReportRows(u) == {i \in 1..Len(report_uploads) : report_uploads[i].report_id = u}
MessagesFor(aid) == {m \in queue : m.artifact_id = aid}
Quiescent == \A u \in Uploads : up[u].pc \in {"idle", "done"}

\* C5: when the same bytes are uploaded twice and both calls succeed, each
\* call has its own report_uploads row, both rows reference the one Artifact
\* of that checksum, exactly one of the two calls put the object and exactly
\* one parse_artifact message for the artifact was enqueued.
C5_ReuploadDedup ==
  \A u1, u2 \in Uploads :
    (/\ u1 # u2
     /\ UploadOk(u1) /\ UploadOk(u2)
     /\ up[u1].checksum = up[u2].checksum
     /\ Started(up[u1].checksum) = {u1, u2})
    => /\ Cardinality(ReportRows(u1)) = 1
       /\ Cardinality(ReportRows(u2)) = 1
       /\ Cardinality(ArtifactByChecksum(up[u1].checksum)) = 1
       /\ \A a \in ArtifactByChecksum(up[u1].checksum) :
            /\ \A i \in ReportRows(u1) \cup ReportRows(u2) :
                 report_uploads[i].artifact_id = a.artifact_id
            /\ a.object_key \in objects
            /\ Cardinality(MessagesFor(a.artifact_id)) = 1
       /\ up[u1].did_put # up[u2].did_put
       /\ up[u1].did_send # up[u2].did_send

C5_Witness ==
  \E u1, u2 \in Uploads :
    /\ u1 # u2
    /\ UploadOk(u1) /\ UploadOk(u2)
    /\ up[u1].checksum = up[u2].checksum
    /\ up[u1].did_send /\ ~up[u2].created_new_artifact
    /\ Len(report_uploads) = 2

\* C6: at most one Artifact row per checksum, every Artifact row has exactly
\* one ParseJob row, and an Artifact row once stored is never changed or
\* removed by a later step of any upload call.
C6_ArtifactRegistry ==
  /\ [](/\ \A c \in Checksums : Cardinality(ArtifactByChecksum(c)) <= 1
        /\ \A a \in artifacts : Cardinality(JobsOf(a.artifact_id)) = 1
        /\ \A j \in parse_jobs : \E a \in artifacts : a.artifact_id = j.artifact_id)
  /\ [][\A a \in artifacts : a \in artifacts']_vars

C6_Witness ==
  \E u1, u2 \in Uploads :
    /\ up[u1].pc = "done" /\ up[u1].err = "integrity"
    /\ up[u2].pc = "done" /\ up[u2].created_new_artifact /\ up[u2].err = "none"
    /\ up[u1].checksum = up[u2].checksum
    /\ up[u1].det # up[u2].det
    /\ Cardinality(ArtifactByChecksum(up[u1].checksum)) = 1

\* C7: once every upload call has ended, each committed Artifact has had
\* exactly one parse_artifact message enqueued (never more, never none).
C7_ExactlyOneEnqueue ==
  Quiescent => \A a \in artifacts : Cardinality(MessagesFor(a.artifact_id)) = 1

\* C8: when the commit of a first-seen upload fails, the except branch
\* deletes the object it had uploaded, none of the call's three rows exists,
\* the file is reported in errors, and the object store is as it was when
\* the call began.
C8_CommitFailureUndone ==
  [][\A u \in Uploads :
       (/\ up[u].pc = "failed" /\ up'[u].pc = "done"
        /\ up[u].created_new_artifact
        /\ up[u].err \in {"db", "integrity"})
       => /\ up[u].object_key \notin objects'
          /\ \A i \in 1..Len(report_uploads') : report_uploads'[i].report_id # u
          /\ \A a \in artifacts' : a.artifact_id # u
          /\ \A j \in parse_jobs' : j.artifact_id # u
          /\ \E i \in 1..Len(errors') : errors'[i].report_id = u
          /\ (up[u].object_key \in objects') = up[u].obj_at_start]_vars

\* C9: every upload call of given bytes that ends without a storage or
\* database outage has its own report_uploads row, which references the
\* single Artifact of that checksum.
C9_EveryUploadGetsRow ==
  \A u \in Uploads :
    (up[u].pc = "done" /\ up[u].err \notin {"db", "storage"})
    => \E i \in ReportRows(u) :
         \E a \in ArtifactByChecksum(up[u].checksum) :
           report_uploads[i].artifact_id = a.artifact_id

\* ----------------------------------------------- orchestration properties
StatusIn(jobs, aid) == (CHOOSE j \in {x \in jobs : x.artifact_id = aid} : TRUE).status
Artifacts == {a.artifact_id : a \in artifacts}

\* C1: for every artifact, the job is moved to SUCCESS at most once and the
\* store writes of the pipeline body run to completion at most once.
C1_AtMostOnce ==
  \A a \in Artifacts : success_marks[a] <= 1 /\ body_completions[a] <= 1

\* An execution's claim transaction commits in this step (it neither
\* raises nor is cut short by a crash).
ClaimStep(w) ==
  /\ exec[w].pc = "claim"
  /\ \/ exec'[w].pc = "body"
     \/ exec'[w].pc = "idle" /\ exec[w].msg \notin queue'

StatusChange(aid) ==
  <<StatusIn(parse_jobs, aid), StatusIn(parse_jobs', aid)>>

C4_SuccessTerminal ==
  [][\A a \in Artifacts :
       StatusIn(parse_jobs, a) = "SUCCESS" => StatusIn(parse_jobs', a) = "SUCCESS"]_vars

\* The execution's retry logic (tasks.py 195-218) runs to its end in this step.
RetryStep(w) ==
  /\ exec[w].pc = "retry"
  /\ exec'[w].pc = "idle"
  /\ exec[w].msg \notin queue'

DlqArtifacts == {dlq_events[i].artifact_id : i \in 1..Len(dlq_events)}

\* C11: once a DlqEvent has been written for an artifact, the status of its
\* job is FAILED in every later state (no delivery or claim step moves it
\* to STARTED or SUCCESS).
C11_DlqPermanent ==
  \A a \in DlqArtifacts : StatusIn(parse_jobs, a) = "FAILED"

\* C12: every stored DlqEvent names the task, the task id and the artifact
\* of a parse_artifact message, carries an error text, and its payload is
\* the payload {artifact_id, bank_id} that the message was enqueued with.
C12_DlqPayload ==
  \A i \in 1..Len(dlq_events) :
    LET e == dlq_events[i] IN
      /\ e.task_name = "payscope_processing.tasks.parse_artifact"
      /\ e.task_id # NoTask
      /\ e.artifact_id \in Artifacts
      /\ e.error # "none"
      /\ DOMAIN e.payload = {"artifact_id", "bank_id"}
      /\ e.payload.artifact_id = e.artifact_id

\* C13: an execution enters the pipeline body only in the step that commits
\* its claim transaction (status STARTED), and when a worker crashes inside
\* the pipeline body the stored status of the job is STARTED.
C13_StartedBeforeBody ==
  [][\A w \in Workers :
       /\ (exec[w].pc # "body" /\ exec'[w].pc = "body") =>
            /\ exec[w].pc = "claim"
            /\ StatusIn(parse_jobs', exec'[w].msg.artifact_id) = "STARTED"
       /\ (exec[w].pc = "body" /\ exec'[w].pc = "idle") =>
            StatusIn(parse_jobs', exec[w].msg.artifact_id) = "STARTED"]_vars

\* ------------------------------------------------- persistence properties
IsPrefix(s, t) == Len(s) <= Len(t) /\ SubSeq(t, 1, Len(s)) = s

\* The steps of one execution with the configured stores, in order.
FullOrder ==
  <<"parse", "normalize", "relational", "timeseries">>
    \o (IF settings.neo4j THEN <<"graph">> ELSE <<>>)
    \o (IF settings.pinecone THEN <<"vector">> ELSE <<>>)
    \o <<"success">>

JobRow(a) == CHOOSE j \in parse_jobs : j.artifact_id = a

C15_RelationalTimeseriesAtomic ==
  stores.postgres = stores.timeseries

Count(table, Key(_), k) == Cardinality({i \in DOMAIN table : Key(table[i]) = k})

\* What a single failure-free run of the persistence sequence for norm
\* leaves in the stores, and nothing twice.
AllStoresHold(norm) ==
  /\ Count(reports, ReportKey, <<PersistBank, norm.report_id, norm.schema_version>>) = 1
  /\ \A i \in DOMAIN reports :
       reports[i].report_id = norm.report_id =>
         reports[i].record_count = Len(norm.transactions)
  /\ \A i \in DOMAIN norm.transactions :
       LET tx == norm.transactions[i] IN
         /\ Count(transactions, TransactionKey,
                  <<PersistBank, tx.transaction_id, tx.lifecycle_stage,
                    norm.schema_version>>) = 1
         /\ Count(merchants, MerchantKey,
                  <<PersistBank, tx.merchant_id, norm.schema_version>>) = 1
         /\ Count(transaction_volume, BucketKey,
                  <<PersistBank, tx.timestamp_utc, norm.source_network,
                    tx.lifecycle_stage>>) = 1
         /\ settings.neo4j =>
              /\ <<"Transaction", TransactionPk(PersistBank, tx)>> \in graph.nodes
              /\ Count(graph.edges, EdgeKey,
                       <<TransactionPk(PersistBank, tx), "AUTHORIZED",
                         <<TransactionPk(PersistBank, tx), "AUTHORIZED",
                           tx.lifecycle_stage>>>>) = 1
         /\ settings.pinecone =>
              Cardinality({v \in vectors :
                             v[1] = <<PersistBank, tx.transaction_id, i - 1>>}) = 1

NoDuplicates ==
  /\ \A i, j \in DOMAIN reports : ReportKey(reports[i]) = ReportKey(reports[j]) => i = j
  /\ \A i, j \in DOMAIN merchants :
       MerchantKey(merchants[i]) = MerchantKey(merchants[j]) => i = j
  /\ \A i, j \in DOMAIN transactions :
       TransactionKey(transactions[i]) = TransactionKey(transactions[j]) => i = j
  /\ \A i, j \in DOMAIN transaction_volume :
       BucketKey(transaction_volume[i]) = BucketKey(transaction_volume[j]) => i = j
  /\ \A i, j \in DOMAIN graph.edges :
       EdgeKey(graph.edges[i]) = EdgeKey(graph.edges[j]) => i = j
  /\ \A v, w \in vectors : v[1] = w[1] => v = w

\* C16: when the persistence sequence is run again for the same
\* normalization result after a failed execution, and no store is
\* unavailable during the re-run, the re-run ends with every configured
\* store holding what a single failure-free run writes, each row, node,
\* edge and vector once.
C16_RerunIdempotent ==
  (/\ pexec.pc \in {"done", "failed"}
   /\ pexec.attempt >= 2
   /\ pexec.norm # NoNorm
   /\ ~pexec.outage)
  => AllStoresHold(pexec.norm) /\ NoDuplicates

\* C17: a graph write of a stage edge whose event_time is earlier than that
\* of the edge last written for the same transaction raises
\* temporal_ordering_violation and leaves the graph unchanged; and no
\* stored edge ever gets an earlier event_time.
C17_TemporalOrdering ==
  [][/\ (/\ pexec.pc = "graph"
         /\ pexec.gi <= Len(pexec.norm.transactions)
         /\ pexec' # pexec
         /\ pexec'.err # "unavailable")
        => LET tx == pexec.norm.transactions[pexec.gi]
               pk == TransactionPk(PersistBank, tx) IN
             (pk \in DOMAIN graph.last_time /\ tx.timestamp_utc < graph.last_time[pk])
               => /\ pexec'.pc = "handler"
                  /\ pexec'.err = "temporal_ordering_violation"
                  /\ graph' = graph
     /\ \A i \in DOMAIN graph.edges : \A j \in DOMAIN graph'.edges :
          EdgeKey(graph.edges[i]) = EdgeKey(graph'.edges[j])
            => graph'.edges[j].event_time >= graph.edges[i].event_time]_vars

\* ------------------------------------------------ normalization properties
\* The oracle classified the document's lifecycle below the threshold.
BelowThreshold ==
  /\ nrun.answer.kind = "response"
  /\ nrun.answer.confidence_score < mapping_confidence_threshold

\* C18: in tabular normalization, when the oracle's lifecycle confidence is
\* below the threshold, the call returns zero TransactionFacts, a report
\* fact with record_count 0 and exactly one ValidationErrorItem, whose code
\* is mapping_rejected, and no row has been processed.
C18_MappingRejected ==
  (nrun.path = "tabular" /\ BelowThreshold) =>
    /\ nrun.pc = "done"
    /\ nrun.result.returned
    /\ nrun.result.transactions = <<>>
    /\ nrun.result.record_count = 0
    /\ Len(nrun.result.errors) = 1
    /\ nrun.result.errors[1].code = "mapping_rejected"
    /\ nrun.i = 0
    /\ nrun.txs = <<>>

C18_Witness ==
  /\ nrun.path = "tabular"
  /\ BelowThreshold
  /\ nrun.pc = "done"
  /\ nrun.inference = "MappingRejected"

\* C19: on the tabular and on the PDF path every emitted TransactionFact
\* carries the lifecycle_stage the oracle returned with a confidence at or
\* above the threshold; no fact carries a defaulted stage.
C19_LifecycleFromOracle ==
  \A n \in DOMAIN nrun.txs :
    /\ nrun.answer.kind = "response"
    /\ nrun.answer.confidence_score >= mapping_confidence_threshold
    /\ nrun.txs[n].lifecycle_stage = nrun.answer.lifecycle_stage

\* C20: in tabular normalization every row yields either exactly one
\* candidate TransactionFact or at least one ValidationErrorItem carrying
\* the row's row_ref, never both and never neither; the outcomes of the
\* rows before it stay as they were and the batch is not aborted.
C20_RowOutcome ==
  [][(nrun.pc = "rows" /\ nrun.path = "tabular" /\ nrun'.i = nrun.i + 1) =>
       LET row_ref == TabularRowRef(PyNone, base_line + nrun.i)
           facts == Len(nrun'.txs) - Len(nrun.txs)
           errs == Len(nrun'.errors) - Len(nrun.errors)
       IN /\ nrun'.pc = "rows"
          /\ IsPrefix(nrun.txs, nrun'.txs)
          /\ IsPrefix(nrun.errors, nrun'.errors)
          /\ \/ /\ facts = 1
                /\ errs = 0
                /\ nrun'.txs[Len(nrun'.txs)].raw_source_ref.source_row_number
                     = row_ref.source_row_number
             \/ /\ facts = 0
                /\ errs >= 1
                /\ \A n \in (Len(nrun.errors) + 1)..Len(nrun'.errors) :
                     nrun'.errors[n].row_ref = row_ref]_vars

\* ------------------------------------------------- function properties
Range(s) == {s[i] : i \in DOMAIN s}
Perms(s) ==
  {[i \in DOMAIN s |-> s[p[i]]] :
     p \in {q \in [DOMAIN s -> DOMAIN s] : \A i, j \in DOMAIN s : i # j => q[i] # q[j]}}

\* t loses to w: a lower confidence, or the same confidence and a lexically
\* greater composite string.
LosesTo(t, w) ==
  \/ t.confidence_score < w.confidence_score
  \/ /\ t.confidence_score = w.confidence_score
     /\ LexLess(TieBreak(w), TieBreak(t))

\* C21: dedupe_transactions returns exactly one fact per (transaction_id,
\* lifecycle_stage), the one with the highest confidence_score, exact ties
\* going to the lexically smallest composite string, and returns the same
\* list for every permutation of its input.
C21_Dedupe ==
  fcall.fn = "dedupe_transactions" =>
    /\ {DedupeKey(t) : t \in Range(fcall.out)} = {DedupeKey(t) : t \in Range(fcall.arg)}
    /\ \A i, j \in DOMAIN fcall.out :
         i # j => DedupeKey(fcall.out[i]) # DedupeKey(fcall.out[j])
    /\ \A w \in Range(fcall.out) :
         /\ w \in Range(fcall.arg)
         /\ \A t \in Range(fcall.arg) :
              (DedupeKey(t) = DedupeKey(w) /\ t # w) => LosesTo(t, w)
    /\ \A p \in Perms(fcall.arg) : dedupe_transactions(p) = fcall.out

\* Three facts of one key; the two of the highest confidence come from rows
\* 9 and 10, in that order, and the fact of row 10 is returned.
C21_Witness ==
  /\ fcall.fn = "dedupe_transactions"
  /\ Len(fcall.arg) = 3
  /\ \A i \in 1..3 : DedupeKey(fcall.arg[i]) = <<"t1", "AUTH">>
  /\ fcall.arg[1].confidence_score = 50
  /\ fcall.arg[2].confidence_score = 90
  /\ fcall.arg[2].raw_source_ref.source_row_number = 9
  /\ fcall.arg[3].confidence_score = 90
  /\ fcall.arg[3].raw_source_ref.source_row_number = 10
  /\ fcall.out = <<fcall.arg[3]>>

\* The handler steps of file u.
UploadStep(u) ==
  \/ UploadLookup(u) \/ UploadPut(u) \/ UploadPutFail(u) \/ UploadCommit(u)
  \/ UploadCommitIntegrityError(u) \/ UploadCommitFail(u) \/ UploadEnqueue(u)
  \/ UploadEnqueueFail(u) \/ UploadSetTaskRef(u) \/ UploadRefresh(u)
  \/ UploadFailureCleanup(u)

InList(list, u) == Cardinality({i \in DOMAIN list : list[i].report_id = u})

\* What the handling of file v left behind is still there after the step.
KeepsHandled(v) ==
  /\ IsPrefix(results, results')
  /\ IsPrefix(errors, errors')
  /\ IsPrefix(report_uploads, report_uploads')
  /\ artifacts \subseteq artifacts'
  /\ queue \subseteq queue'
  /\ \A j \in parse_jobs :
       \E k \in parse_jobs' : k.job_id = j.job_id /\ k.artifact_id = j.artifact_id
                              /\ k.status = j.status
  /\ \A a \in artifacts :
       (a.artifact_id = up[v].artifact_id /\ InList(results, v) = 1
          /\ a.object_key \in objects) => a.object_key \in objects'

\* C22: every file of a request ends in exactly one of the lists results
\* and errors (their lengths sum to the number of files handled); a file
\* being handled, failing or not, can always take its next step, and no
\* step of it undoes rows, objects or enqueues of the files handled before
\* it.
C22_FilesIndependent ==
  /\ [](/\ \A u \in Uploads :
             /\ up[u].pc = "done" => InList(results, u) + InList(errors, u) = 1
             /\ up[u].pc # "done" => InList(results, u) + InList(errors, u) = 0
             /\ up[u].pc \notin {"idle", "done"} => ENABLED UploadStep(u)
        /\ Len(results) + Len(errors)
             = Cardinality({u \in Uploads : up[u].pc = "done"}))
  /\ [][\A u \in Uploads :
          up'[u] # up[u] => \A v \in up'[u].after : KeepsHandled(v)]_vars

\* The first file failed after its object was stored; the second file,
\* handled after it, is registered, enqueued and reported in results.
C22_Witness ==
  /\ up[1].pc = "done"
  /\ up[1].did_put
  /\ InList(errors, 1) = 1
  /\ up[2].pc = "done"
  /\ up[2].after = {1}
  /\ up[2].did_send
  /\ InList(results, 2) = 1
  /\ Len(results) + Len(errors) = 2

\* C24: backoff_with_jitter(attempt, base_s=2, cap_s=300) returns an integer
\* d with 0 <= d <= min(300, 2 * 2^attempt) for every non-negative attempt,
\* and a negative attempt has the bound of attempt 0.
C24_BackoffRange ==
  fcall.fn = "backoff_with_jitter" =>
    LET attempt == fcall.arg[1]
        d == fcall.out[1]
        effective == IF attempt < 0 THEN 0 ELSE attempt
    IN /\ d \in Int
       /\ 0 <= d
       /\ d <= 300
       /\ d <= 2 * (2 ^ effective)

\* Calls that reach both ends of the range: the cap at attempt 8 (2 * 2^8 =
\* 512 > 300) and the whole of attempt 0's bound for a negative attempt.
C24_Witness ==
  /\ fcall.fn = "backoff_with_jitter"
  /\ \/ fcall.arg[1] = 8 /\ fcall.out[1] = 300
     \/ fcall.arg[1] < 0 /\ fcall.out[1] = 2

\* The records of a call of analyze_lifecycle, its result, and the record
\* that stands for a stage (the last one given for it).
Analyzed == fcall.fn = "analyze_lifecycle"
Found == fcall.out[1]
HasStage(st) == \E i \in DOMAIN fcall.arg : fcall.arg[i].stage = st
StageTime(st) ==
  LET last == CHOOSE i \in DOMAIN fcall.arg :
                /\ fcall.arg[i].stage = st
                /\ \A j \in DOMAIN fcall.arg : fcall.arg[j].stage = st => j <= i
  IN fcall.arg[last].timestamp_utc

\* C25: has_amount_mismatch is true exactly when two stage records have
\* amounts, both non-zero, that differ by more than 1 % of the larger
\* magnitude; AUTH 100 with SETTLEMENT 102 gives true, a zero leg never
\* contributes, and fewer than two records give false.
C25_AmountMismatch ==
  Analyzed =>
    /\ Found.has_amount_mismatch <=>
         \E i, j \in DOMAIN fcall.arg :
           LET a == fcall.arg[i].amount
               b == fcall.arg[j].amount
           IN /\ i # j
              /\ a # 0
              /\ b # 0
              /\ 100 * Abs(a - b) > Abs(a)
              /\ 100 * Abs(a - b) > Abs(b)
    /\ Len(fcall.arg) < 2 => ~Found.has_amount_mismatch
    /\ (\E i, j \in DOMAIN fcall.arg :
          /\ fcall.arg[i].stage = "AUTH" /\ fcall.arg[i].amount = 100
          /\ fcall.arg[j].stage = "SETTLEMENT" /\ fcall.arg[j].amount = 102)
       => Found.has_amount_mismatch

\* AUTH 99 and SETTLEMENT 100 (exactly 1 %) with a zero CLEARING leg: no
\* mismatch.
C25_Witness ==
  /\ Analyzed
  /\ Len(fcall.arg) = 3
  /\ fcall.arg[1].stage = "AUTH" /\ fcall.arg[1].amount = 99
  /\ fcall.arg[2].stage = "CLEARING" /\ fcall.arg[2].amount = 0
  /\ fcall.arg[3].stage = "SETTLEMENT" /\ fcall.arg[3].amount = 100
  /\ ~Found.has_amount_mismatch

\* C26: timestamp_violation is true exactly when two stages that are present
\* carry timestamps against the order AUTH, CLEARING, SETTLEMENT; equal
\* timestamps are no violation and absent stages are skipped.
C26_TimestampOrder ==
  Analyzed =>
    (Found.timestamp_violation <=>
       \E s1, s2 \in {"AUTH", "CLEARING", "SETTLEMENT"} :
         /\ HasStage(s1)
         /\ HasStage(s2)
         /\ StageRank(s1) < StageRank(s2)
         /\ StageTime(s1) > StageTime(s2))

\* AUTH a day after SETTLEMENT, no CLEARING: a violation.
C26_Witness ==
  /\ Analyzed
  /\ Len(fcall.arg) = 2
  /\ fcall.arg[1].stage = "AUTH" /\ fcall.arg[1].timestamp_utc = DaySeconds
  /\ fcall.arg[2].stage = "SETTLEMENT" /\ fcall.arg[2].timestamp_utc = 0
  /\ Found.timestamp_violation

\* C27: missing_settlement is true iff no SETTLEMENT record is present,
\* currency_conflict iff the records carry more than one currency, and
\* lifecycle_gap_duration is the SETTLEMENT timestamp minus the AUTH
\* timestamp in seconds when both stages are present, and absent otherwise.
C27_PresenceOutputs ==
  Analyzed =>
    /\ Found.missing_settlement <=> ~HasStage("SETTLEMENT")
    /\ Found.currency_conflict <=>
         \E i, j \in DOMAIN fcall.arg : fcall.arg[i].currency # fcall.arg[j].currency
    /\ IF HasStage("AUTH") /\ HasStage("SETTLEMENT")
       THEN Found.lifecycle_gap_duration =
              <<StageTime("SETTLEMENT") - StageTime("AUTH")>>
       ELSE Found.lifecycle_gap_duration = <<>>

\* AUTH (100 USD, t0) and SETTLEMENT (102 USD, t0 + 86400 s): settlement
\* present, one currency, a gap of 86400 seconds.
C27_Witness ==
  /\ Analyzed
  /\ fcall.arg = <<LifecycleStageInfo("AUTH", 100, "USD", 0),
                   LifecycleStageInfo("SETTLEMENT", 102, "USD", DaySeconds)>>
  /\ Found = LifecycleAnomalies(TRUE, FALSE, FALSE, <<DaySeconds>>, FALSE)

\* C28: the anomaly flags stored on a persisted transaction equal the
\* reconciler's output for that transaction's stage records at the time of
\* the write (a transaction persisted with only an AUTH stage is stored with
\* missing_settlement = true).
C28_StoredFlags ==
  [][(pexec.pc = "graph" /\ pexec'.gi = pexec.gi + 1) =>
       LET tx == pexec.norm.transactions[pexec.gi]
       IN graph'.anomalies[TransactionPk(PersistBank, tx)]
            = analyze_lifecycle(StageInfos(tx))]_vars

\* C29: a time-series bucket (bank_id, bucket_time, source_network,
\* lifecycle_stage), once written, keeps its tx_count and amount_sum under
\* every later write (a retry or another report), and no second row is
\* created for it.
C29_BucketsInsertIfAbsent ==
  /\ [](\A i, j \in DOMAIN transaction_volume :
          LET a == transaction_volume[i]
              b == transaction_volume[j]
          IN (/\ a.bank_id = b.bank_id
              /\ a.bucket_time = b.bucket_time
              /\ a.source_network = b.source_network
              /\ a.lifecycle_stage = b.lifecycle_stage) => i = j)
  /\ [][\A i \in DOMAIN transaction_volume :
          /\ i \in DOMAIN transaction_volume'
          /\ transaction_volume'[i] = transaction_volume[i]]_vars

\* The time-series step of an execution has run with a bucket that had been
\* written before with another count, and the stored row has the old count.
C29_Witness ==
  /\ \E k \in DOMAIN pexec.steps : pexec.steps[k] = "timeseries"
  /\ \E i \in DOMAIN transaction_volume :
       \E n \in DOMAIN pexec.norm.transactions :
         LET row == transaction_volume[i]
             tx == pexec.norm.transactions[n]
             mine == BucketRow(PersistBank, pexec.norm, tx.timestamp_utc,
                               tx.lifecycle_stage)
         IN /\ row.bucket_time = mine.bucket_time
            /\ row.lifecycle_stage = mine.lifecycle_stage
            /\ row.source_network = mine.source_network
            /\ row.tx_count # mine.tx_count

\* A parsed amount d has the value n / 10^places.
IsNumber(d, n, places) ==
  IF d.exp + places >= 0
  THEN (IF d.sign = 1 THEN 0 - d.coeff ELSE d.coeff) * (10 ^ (d.exp + places)) = n
  ELSE (IF d.sign = 1 THEN 0 - d.coeff ELSE d.coeff) = n * (10 ^ (0 - (d.exp + places)))

\* What parse_amount gives for a text: its amount (at most one) and the number
\* of its validation errors.
AmountOf(text) ==
  LET r == AmountFromText(text, "amount", EmptyRowRef)
  IN [amounts |-> IF r.errs = <<>> THEN {r.value} ELSE {}, errors |-> Len(r.errs)]

\* A plain number: an optional sign, digits, and at most one point.
PlainNumber(s) ==
  \E k \in 0..1 : \E n \in k..Len(s) : \E m \in {n, n + 1} :
    /\ k = 1 => s[1] \in {"+", "-"}
    /\ AllDigits(SubSeq(s, k + 1, n))
    /\ m = n + 1 => (m <= Len(s) /\ s[m] = ".")
    /\ AllDigits(SubSeq(s, m + 1, Len(s)))
    /\ (n - k) + (Len(s) - m) > 0
\* The characters of s that no number is written with.
LettersIn(s) ==
  {c \in {s[i] : i \in DOMAIN s} : ~IsDigit(c)} \ {".", "+", "-", "e", "E", "_", "$", ",", "(", ")", " "}

\* C30: parse_amount strips '$' and ',' and turns accounting parentheses
\* into a minus sign ("$1,234.56" gives 1234.56, "(45.00)" gives -45.00, "-10"
\* gives -10); an empty, non-numeric, NaN or infinite value gives no amount
\* and exactly one validation error; a result is always returned.
C30_ParseAmount ==
  /\ fcall.fn = "parse_amount(None)" =>
       /\ Len(fcall.out[1].errs) = 1
       /\ fcall.out[1].errs[1].code = "amount_missing"
       /\ fcall.out[1].value = PyNone
  /\ fcall.fn = "parse_amount" =>
       LET text == fcall.arg
           r == fcall.out[1]
           s == StripText(text)
       IN /\ \/ r.errs = <<>>
             \/ Len(r.errs) = 1 /\ r.value = PyNone
          /\ text = <<"$", "1", ",", "2", "3", "4", ".", "5", "6">> =>
               r.errs = <<>> /\ IsNumber(r.value, 123456, 2)
          /\ text = <<"(", "4", "5", ".", "0", "0", ")">> =>
               r.errs = <<>> /\ IsNumber(r.value, 0 - 4500, 2)
          /\ text = <<"-", "1", "0">> => r.errs = <<>> /\ IsNumber(r.value, 0 - 10, 0)
          /\ s = <<>> => r.errs # <<>> /\ r.errs[1].code = "amount_missing"
          /\ (LettersIn(s) # {} \/ ~\E i \in DOMAIN s : IsDigit(s[i])) => r.errs # <<>>
          /\ PlainNumber(s) =>
               /\ r.errs = <<>>
               /\ r.value.sign = (IF s[1] = "-" THEN 1 ELSE 0)
               /\ r.value.coeff = IntOf(SelectSeq(s, IsDigit))
          /\ AmountOf(Without(Without(text, "$"), ",")).amounts = AmountOf(text).amounts
          /\ (Len(s) >= 2 /\ s[1] = "(" /\ s[Len(s)] = ")") =>
               AmountOf(<<"-">> \o StripText(SubSeq(s, 2, Len(s) - 1))).amounts
                 = AmountOf(text).amounts

\* "($45.00)": the dollar sign is dropped, the parentheses become a minus
\* sign, and the amount is -45.
C30_Witness ==
  /\ fcall.fn = "parse_amount"
  /\ fcall.arg = <<"(", "$", "4", "5", ".", "0", "0", ")">>
  /\ fcall.out[1].errs = <<>>
  /\ IsNumber(fcall.out[1].value, 0 - 45, 0)

\* C39: analyze_lifecycle gives the same result for every ordering of its
\* stage records, also when a stage appears in more than one record.
C39_OrderIndependent ==
  Analyzed => \A p \in Perms(fcall.arg) : analyze_lifecycle(p) = Found

\* C33: an execution that did not itself move the job to STARTED (its claim
\* step raised, or it has not claimed) changes no parse_jobs row in any of
\* its steps.
C33_NonClaimantKeepsStatus ==
  [][\A w \in Workers :
       (/\ Busy(w)
        /\ exec'[w] # exec[w]
        /\ ~exec[w].claimed /\ ~exec'[w].claimed)
       => parse_jobs' = parse_jobs]_vars

\* The job of artifact aid is STARTED and no running execution has claimed
\* it: the execution that set STARTED died before writing SUCCESS or FAILED.
Orphaned(aid) ==
  /\ StatusIn(parse_jobs, aid) = "STARTED"
  /\ \A w \in Workers :
       ~(Busy(w) /\ exec[w].claimed /\ exec[w].msg.artifact_id = aid)

\* C31: a job left STARTED by an execution that died stays STARTED in every
\* later state: no delivery, redelivery or retry of its message changes the
\* status or claims the job again.
C31_StuckStarted ==
  [][Orphaned(1) => Orphaned(1)']_vars

\* C32: in every state, each committed Artifact row has an object stored
\* under its object_key.
C32_ArtifactObjectExists ==
  \A a \in artifacts : a.object_key \in objects

\* C35: every parse_artifact message, on the broker or held by a worker,
\* names an artifact whose ParseJob row is stored, so no claim step raises
\* 'parse job not found'.
C35_JobRowBeforeMessage ==
  /\ \A m \in queue : JobsOf(m.artifact_id) # {}
  /\ \A w \in Workers :
       Busy(w) => /\ JobsOf(exec[w].msg.artifact_id) # {}
                  /\ exec[w].err # "parse job not found"

\* A worker has claimed the job while the upload call that sent the message
\* has not yet written the task reference.
C35_Witness ==
  \E u \in Uploads, w \in Workers :
    /\ up[u].pc = "setref"
    /\ exec[w].pc = "body" /\ exec[w].claimed
    /\ exec[w].msg.artifact_id = up[u].artifact_id

\* The row of every stored job is still stored, with the same status and error.
KeepsJobStatus ==
  \A j \in parse_jobs :
    \E k \in parse_jobs' :
      k.job_id = j.job_id /\ k.status = j.status /\ k.error = j.error

\* C36: the step of an upload call that writes the task reference sets
\* celery_task_id and leaves status and error of every job as stored, also
\* when a worker has claimed or finished the job since the enqueue; no step
\* of an upload call changes the status or error of a stored job.
C36_TaskRefKeepsStatus ==
  [][/\ up' # up => KeepsJobStatus
     /\ \A u \in Uploads :
          (up[u].pc = "setref" /\ up'[u].pc = "done") =>
            \A k \in parse_jobs' :
              k.artifact_id = up[u].artifact_id => k.celery_task_id = up[u].task_id]_vars

\* The task reference was written when a worker had already moved the job
\* to SUCCESS, and the job is still SUCCESS.
C36_Witness ==
  \E u \in Uploads :
    /\ up[u].pc = "done" /\ up[u].did_send
    /\ up[u].status_at_setref = "SUCCESS"
    /\ \A j \in JobsOf(up[u].artifact_id) :
         j.status = "SUCCESS" /\ j.celery_task_id = up[u].task_id

\* Upload call u found the Artifact of its bytes stored and has committed
\* its own report_uploads row.
Reuses(u) ==
  /\ up[u].pc \in {"committed", "done"}
  /\ up[u].err = "none"
  /\ ~up[u].created_new_artifact

\* The bank of the call that created artifact aid (an artifact carries the
\* number of the call that inserted it).
OwnerBank(aid) == up[aid].bank_id

\* C38: when a call of one bank uploads bytes whose Artifact a call of
\* another bank has created, it references that one Artifact and its one
\* ParseJob, no message for the artifact carries the second bank's id, no
\* store holds a key under the second bank's id, and the call's result
\* reports the artifact_id and the stored status of the first bank's job.
C38_CrossBankDedup ==
  /\ [](\A u \in Uploads :
          (Reuses(u) /\ up[u].bank_id # OwnerBank(up[u].artifact_id)) =>
            /\ \A a \in ArtifactByChecksum(up[u].checksum) :
                 a.artifact_id = up[u].artifact_id
            /\ Cardinality(ArtifactByChecksum(up[u].checksum)) = 1
            /\ Cardinality(JobsOf(up[u].artifact_id)) = 1
            /\ \E i \in ReportRows(u) :
                 report_uploads[i].artifact_id = up[u].artifact_id
            /\ \A m \in queue :
                 m.artifact_id = up[u].artifact_id => m.bank_id # up[u].bank_id
            /\ \A w \in Workers : Busy(w) => exec[w].msg.bank_id # up[u].bank_id
            /\ \A s \in DOMAIN stores : \A k \in stores[s] : k[1] # up[u].bank_id)
  /\ [][\A u \in Uploads :
          (Reuses(u) /\ up[u].pc = "committed" /\ up'[u].pc = "done") =>
            /\ Len(results') = Len(results) + 1
            /\ results'[Len(results')].report_id = u
            /\ results'[Len(results')].artifact_id = up[u].artifact_id
            /\ results'[Len(results')].parse_status =
                 StatusIn(parse_jobs, up[u].artifact_id)]_vars

\* Bank B's call has ended with a result that names bank A's artifact and
\* its finished job, after a worker persisted the file under bank A.
C38_Witness ==
  \E u \in Uploads :
    /\ Reuses(u) /\ up[u].pc = "done"
    /\ up[u].bank_id = "bankB" /\ OwnerBank(up[u].artifact_id) = "bankA"
    /\ stores.postgres # {}
    /\ \E i \in 1..Len(results) :
         /\ results[i].report_id = u
         /\ results[i].artifact_id = up[u].artifact_id
         /\ results[i].parse_status = "SUCCESS"

\* The artifact a report_id belongs to: that of its report_uploads row (the
\* artifact_id itself stands in as report_id when there is no row).
ArtifactOfReport(rid) ==
  IF ReportRows(rid) = {} THEN rid
  ELSE report_uploads[CHOOSE i \in ReportRows(rid) : TRUE].artifact_id

\* C34: the report rows that the executions of one artifact's job have
\* written all carry the same report_id.
C34_OneReportPerArtifact ==
  \A k1, k2 \in stores.postgres :
    ArtifactOfReport(k1[2]) = ArtifactOfReport(k2[2]) => k1[2] = k2[2]

\* The vector ID persist_embeddings gives the i-th transaction of norm.
VecIdOf(bank_id, norm, i) == VecId(bank_id, ChunkTransactions(norm)[i].source_meta, i)
FactKey(bank_id, tx) == <<bank_id, tx.transaction_id, tx.lifecycle_stage>>

\* C37: the vector IDs built for a result are those of its facts, and two
\* facts, of the same or of different results, get the same vector ID
\* exactly when they agree in bank_id, transaction_id and lifecycle_stage.
C37_StableVectorIds ==
  fcall.fn = "persist_embeddings" =>
    LET bank_id == fcall.arg[1]
        norm == fcall.arg[2] IN
      /\ {p[1] : p \in fcall.out[1]} =
           {VecIdOf(bank_id, norm, i) : i \in DOMAIN norm.transactions}
      /\ \A other \in VectorInputs :
           \A i \in DOMAIN norm.transactions, j \in DOMAIN other[2].transactions :
             (FactKey(bank_id, norm.transactions[i])
                = FactKey(other[1], other[2].transactions[j]))
             <=> (VecIdOf(bank_id, norm, i) = VecIdOf(other[1], other[2], j))

\* -------------------------------------------------- liveness properties
\* C23: when every queued message is eventually delivered, every retry
\* eventually runs and no worker dies, the enqueued job eventually reaches
\* SUCCESS or has a DlqEvent written, and it does not stay in QUEUED or
\* STARTED forever.
C23_EventuallySettled ==
  /\ <>(StatusIn(parse_jobs, 1) = "SUCCESS" \/ 1 \in DlqArtifacts)
  /\ []<>(StatusIn(parse_jobs, 1) \notin {"QUEUED", "STARTED"})

====
